---- MODULE Spec2Model ----
(***************************************************************************)
(* A model of the article extraction pipeline: the domain registry         *)
(* (scraper_config.py), the extraction facade, renderer and engine         *)
(* (main.py, main_async.py).                                                *)
(*                                                                         *)
(* Python strings are sequences of one-character strings, so that          *)
(* str.lower(), str.strip(), str.startswith(), urlparse() and the          *)
(* formatting of the output are computed rather than assumed.              *)
(***************************************************************************)
EXTENDS Integers, Sequences, FiniteSets, TLC

\* Number of register() calls explored after the module has been imported.
MaxRegister == 2

\* The clock of the service advances at most this many times
MaxTicks == 3

\* The longest list of source URLs of a POST /generate
MaxUrls == 2

\* The browser processes alive at once
MaxLive == 3

(***************************************************************************)
(* Optional values: None and Some(x).                                      *)
(***************************************************************************)
None == [some |-> FALSE]

Some(x) == [some |-> TRUE, v |-> x]

(***************************************************************************)
(* Strings                                                                 *)
(***************************************************************************)
UpperChars == <<"A","B","C","D","E","F","G","H","I","J","K","L","M","N","O","P","Q","R","S","T","U","V","W","X","Y","Z">>

LowerChars == <<"a","b","c","d","e","f","g","h","i","j","k","l","m","n","o","p","q","r","s","t","u","v","w","x","y","z">>

\* str.lower() on one character
LowerChar(c) ==
    IF \E i \in 1..Len(UpperChars) : UpperChars[i] = c
    THEN LowerChars[CHOOSE i \in 1..Len(UpperChars) : UpperChars[i] = c]
    ELSE c

\* str.lower()
Lower(s) == [i \in 1..Len(s) |-> LowerChar(s[i])]

\* s[a:b] of Python, 0-based, a <= b <= len(s)
Slice(s, a, b) == [i \in 1..(b - a) |-> s[a + i]]

\* s.startswith(prefix)
StartsWith(s, prefix) ==
    /\ Len(prefix) <= Len(s)
    /\ Slice(s, 0, Len(prefix)) = prefix

\* sub in s
Contains(s, sub) ==
    \E a \in 0..(Len(s) - Len(sub)) : Slice(s, a, a + Len(sub)) = sub

\* s.find(c): the 0-based index of the first occurrence of a character of cs
\* at or after position from, or -1
FindAny(s, cs, from) ==
    IF \E i \in (from + 1)..Len(s) : s[i] \in cs
    THEN (CHOOSE i \in (from + 1)..Len(s) :
              /\ s[i] \in cs
              /\ \A j \in (from + 1)..(i - 1) : s[j] \notin cs) - 1
    ELSE -1

sandesh == <<"s","a","n","d","e","s","h">>

tv9gujarati == <<"t","v","9","g","u","j","a","r","a","t","i">>

gujaratsamachar == <<"g","u","j","a","r","a","t","s","a","m","a","c","h","a","r">>

aajtak == <<"a","a","j","t","a","k">>

bbc_gujarati == <<"b","b","c","_","g","u","j","a","r","a","t","i">>

sandesh_custom == <<"s","a","n","d","e","s","h","_","c","u","s","t","o","m">>

nonexistent == <<"n","o","n","e","x","i","s","t","e","n","t">>

NewsDesk == <<"N","e","w","s","D","e","s","k">>

bbc == <<"b","b","c">>

example == <<"e","x","a","m","p","l","e">>

DotCom == <<".","c","o","m">>

DotIn == <<".","i","n">>

Www == <<"w","w","w",".">>

WwwUpper == <<"W","W","W",".">>

SandeshMixed == <<"S","a","n","d","e","s","h">>

DotComUpper == <<".","C","O","M">>

Https == <<"h","t","t","p","s",":">>

SlashSlash == <<"/","/">>

Port == <<":","8","0","8","0">>

Path == <<"/","a">>

(***************************************************************************)
(* urllib.parse.urlparse(url).netloc, as _extract_domain uses it: the      *)
(* scheme is what precedes the first ":", and when the rest starts with    *)
(* "//" the netloc runs up to the first "/", "?" or "#" (or the end).      *)
(* User info and port are part of the netloc; its case is kept.            *)
(***************************************************************************)
Digits == <<"0","1","2","3","4","5","6","7","8","9">>

Range(s) == {s[i] : i \in 1..Len(s)}

Letters == Range(UpperChars) \cup Range(LowerChars)

SchemeChars == Letters \cup Range(Digits) \cup {"+", "-", "."}

AfterScheme(url) ==
    LET i == FindAny(url, {":"}, 0)
    IN  IF /\ i > 0
           /\ url[1] \in Letters
           /\ \A j \in 1..i : url[j] \in SchemeChars
        THEN Slice(url, i + 1, Len(url))
        ELSE url

_extract_domain(url) ==
    LET rest == AfterScheme(url)
    IN  IF StartsWith(rest, SlashSlash)
        THEN LET delim == FindAny(rest, {"/", "?", "#"}, 2)
             IN  Slice(rest, 2, IF delim = -1 THEN Len(rest) ELSE delim)
        ELSE <<>>

(***************************************************************************)
(* Noise keywords, class names and tag names of the configurations.  A     *)
(* non-ASCII character is written as one element naming its code point.    *)
(***************************************************************************)
kw_advertisement == <<"a","d","v","e","r","t","i","s","e","m","e","n","t">>

kw_also_read == <<"a","l","s","o"," ","r","e","a","d">>

kw_related_articles == <<"r","e","l","a","t","e","d"," ","a","r","t","i","c","l","e","s">>

kw_Share == <<"S","h","a","r","e">>

kw_share == <<"s","h","a","r","e">>

kw_follow_us == <<"f","o","l","l","o","w"," ","u","s">>

kw_post_a_comment == <<"p","o","s","t"," ","a"," ","c","o","m","m","e","n","t">>

kw_descriptions_off == <<"d","e","s","c","r","i","p","t","i","o","n","s"," ","o","f","f">>

kw_subtitles == <<"s","u","b","t","i","t","l","e","s">>

kw_alternate_audio == <<"a","l","t","e","r","n","a","t","e"," ","a","u","d","i","o">>

kw_modal_window == <<"t","h","i","s"," ","i","s"," ","a"," ","m","o","d","a","l"," ","w","i","n","d","o","w">>

kw_beginning_of_dialog == <<"b","e","g","i","n","n","i","n","g"," ","o","f"," ","d","i","a","l","o","g"," ","w","i","n","d","o","w">>

kw_end_of_dialog == <<"e","n","d"," ","o","f"," ","d","i","a","l","o","g"," ","w","i","n","d","o","w">>

kw_aa_pan_vancho == <<"U+0A86"," ","U+0AAA","U+0AA3"," ","U+0AB5","U+0ABE","U+0A82","U+0A9A","U+0ACB">>

kw_vadhu_vancho == <<"U+0AB5","U+0AA7","U+0AC1"," ","U+0AB5","U+0ABE","U+0A82","U+0A9A","U+0ACB">>

kw_related_stories == <<"r","e","l","a","t","e","d"," ","s","t","o","r","i","e","s">>

kw_share_this == <<"s","h","a","r","e"," ","t","h","i","s">>

c_story == <<"s","t","o","r","y">>

c_article_ == <<"a","r","t","i","c","l","e","-">>

c_article_123 == <<"a","r","t","i","c","l","e","-","1","2","3">>

c_detailBody == <<"d","e","t","a","i","l","B","o","d","y">>

c_detail_news == <<"d","e","t","a","i","l","-","n","e","w","s">>

c_article_detail_news == <<"a","r","t","i","c","l","e","-","d","e","t","a","i","l","-","n","e","w","s">>

c_content_area == <<"c","o","n","t","e","n","t","-","a","r","e","a">>

c_inner_ar == <<"i","n","n","e","r","_","a","r">>

c_related_content_alsoread == <<"r","e","l","a","t","e","d","-","c","o","n","t","e","n","t","-","a","l","s","o","r","e","a","d">>

c_trc_rbox_container == <<"t","r","c","_","r","b","o","x","_","c","o","n","t","a","i","n","e","r">>

c_ad_container == <<"a","d","-","c","o","n","t","a","i","n","e","r">>

c_social_share == <<"s","o","c","i","a","l","-","s","h","a","r","e">>

c_multiple == <<"m","u","l","t","i","p","l","e">>

c_card == <<"c","a","r","d">>

c_tbl_feed_card == <<"t","b","l","-","f","e","e","d","-","c","a","r","d">>

c_main_content == <<"m","a","i","n","-","c","o","n","t","e","n","t">>

c_related_articles == <<"r","e","l","a","t","e","d","-","a","r","t","i","c","l","e","s">>

c_py_4 == <<"p","y","-","4">>

c_font_normal == <<"f","o","n","t","-","n","o","r","m","a","l">>

c_readmoreAction == <<"r","e","a","d","m","o","r","e","A","c","t","i","o","n">>

t_h1 == <<"h","1">>

t_h2 == <<"h","2">>

t_h3 == <<"h","3">>

t_h4 == <<"h","4">>

t_h5 == <<"h","5">>

t_h6 == <<"h","6">>

t_p == <<"p">>

t_b == <<"b">>

t_strong == <<"s","t","r","o","n","g">>

t_li == <<"l","i">>

t_div == <<"d","i","v">>

t_span == <<"s","p","a","n">>

t_aside == <<"a","s","i","d","e">>

t_footer == <<"f","o","o","t","e","r">>

t_nav == <<"n","a","v">>

t_article == <<"a","r","t","i","c","l","e">>

t_body == <<"b","o","d","y">>


(***************************************************************************)
(* CSS selectors.  A selector string of the source is held parsed: a       *)
(* compound selector tag.class1.class2[class*='sub'], or a string that is  *)
(* no selector at all (valid = FALSE), on which soupsieve raises           *)
(* SelectorSyntaxError when it is applied.                                 *)
(***************************************************************************)
Sel(tag, classes, contains) ==
    [valid |-> TRUE, tag |-> tag, classes |-> classes, contains |-> contains]

BadSel == [valid |-> FALSE, tag |-> <<>>, classes |-> {}, contains |-> <<>>]

(***************************************************************************)
(* DomainConfig objects.  The registry and the calls hold references to    *)
(* them (their identifiers); Cfg gives the object behind a reference.      *)
(***************************************************************************)
DomainConfig(name, container, id_pattern, load_more, tags, kws, remove, min_len, wait, click, load) ==
    [domain_name |-> name,
     article_container_selector |-> container,
     article_id_pattern |-> id_pattern,
     load_more_selector |-> load_more,
     allowed_tags |-> tags,
     noise_keywords |-> kws,
     elements_to_remove |-> remove,
     min_text_length |-> min_len,
     wait_timeout |-> wait,
     click_timeout |-> click,
     page_load_timeout |-> load,
     wait_until |-> "domcontentloaded"]

DefaultTags == {t_h1, t_h2, t_h3, t_h4, t_h5, t_h6, t_p, t_b, t_strong, t_li}

CommonKeywords ==
    <<kw_advertisement, kw_also_read, kw_related_articles, kw_share, kw_follow_us,
      kw_post_a_comment>>

SANDESH_CONFIG ==
    DomainConfig(sandesh, Sel(t_div, {c_story}, c_article_), Some(c_article_),
                 Some(Sel(<<>>, {c_py_4, c_font_normal}, <<>>)), DefaultTags,
                 CommonKeywords \o <<kw_descriptions_off, kw_subtitles, kw_alternate_audio,
                                     kw_modal_window, kw_beginning_of_dialog,
                                     kw_end_of_dialog, kw_aa_pan_vancho>>,
                 <<Sel(<<>>, {c_inner_ar}, <<>>),
                   Sel(<<>>, {c_related_content_alsoread}, <<>>)>>,
                 25, 3000, 2000, 15000)

TV9_GUJARATI_CONFIG ==
    DomainConfig(tv9gujarati, Sel(t_div, {c_detailBody}, <<>>), None, None,
                 DefaultTags \cup {t_div},
                 CommonKeywords \o <<kw_aa_pan_vancho, kw_vadhu_vancho>>,
                 <<Sel(<<>>, {c_trc_rbox_container}, <<>>),
                   Sel(<<>>, {c_ad_container}, <<>>),
                   Sel(<<>>, {c_social_share}, <<>>)>>,
                 25, 5000, 2000, 15000)

GUJARAT_SAMACHAR_CONFIG ==
    DomainConfig(gujaratsamachar, Sel(<<>>, {c_detail_news, c_article_detail_news}, <<>>),
                 None, None, DefaultTags \cup {t_div},
                 CommonKeywords \o <<kw_aa_pan_vancho, kw_vadhu_vancho>>,
                 <<Sel(<<>>, {c_multiple, c_card}, <<>>),
                   Sel(<<>>, {c_ad_container}, <<>>),
                   Sel(<<>>, {c_social_share}, <<>>)>>,
                 25, 5000, 2000, 15000)

AAJTAK_CONFIG ==
    DomainConfig(aajtak, Sel(<<>>, {c_content_area}, <<>>), None,
                 Some(Sel(<<>>, {c_readmoreAction}, <<>>)), DefaultTags \cup {t_div},
                 CommonKeywords \o <<kw_aa_pan_vancho, kw_vadhu_vancho>>,
                 <<Sel(<<>>, {c_ad_container}, <<>>),
                   Sel(<<>>, {c_social_share}, <<>>),
                   Sel(<<>>, {c_tbl_feed_card}, <<>>)>>,
                 25, 5000, 2000, 15000)

\* example_usage.py, example 4: a configuration registered at run time
bbc_config ==
    DomainConfig(bbc_gujarati, Sel(t_article, {c_main_content}, <<>>), None, None,
                 {t_h1, t_h2, t_h3, t_p, t_li},
                 <<kw_advertisement, kw_related_stories, kw_share_this>>,
                 <<Sel(<<>>, {c_related_articles}, <<>>),
                   Sel(<<>>, {c_social_share}, <<>>)>>,
                 30, 10000, 3000, 60000)

\* example_usage.py, example 3: a configuration passed to extract_article
custom_config ==
    DomainConfig(sandesh_custom, Sel(t_div, {c_story}, c_article_), Some(c_article_),
                 Some(Sel(<<>>, {c_py_4, c_font_normal}, <<>>)), {t_h1, t_h2, t_p},
                 <<kw_advertisement, kw_also_read, kw_aa_pan_vancho>>,
                 <<Sel(<<>>, {c_inner_ar}, <<>>),
                   Sel(<<>>, {c_related_content_alsoread}, <<>>)>>,
                 50, 20000, 5000, 60000)

\* A second configuration under the name "sandesh": registering it replaces
\* SANDESH_CONFIG.
sandesh_v2 ==
    DomainConfig(sandesh, Sel(<<>>, {c_story}, <<>>), None, None, {t_p}, <<>>, <<>>,
                 5, 15000, 3000, 60000)

\* A configuration whose name has upper-case letters.
desk_config ==
    DomainConfig(NewsDesk, Sel(<<>>, {c_story}, <<>>), None, None, {t_p}, <<>>, <<>>,
                 5, 15000, 3000, 60000)

\* A configuration one of whose elements_to_remove strings is no CSS selector.
bad_config ==
    DomainConfig(example, Sel(<<>>, {c_story}, <<>>), None, None, {t_p}, <<>>,
                 <<BadSel>>, 5, 15000, 3000, 60000)

\* A configuration with an id pattern, one selector to remove, one noise
\* keyword and headings among its tags.
story_config ==
    DomainConfig(sandesh_custom, Sel(<<>>, {c_story}, <<>>), Some(c_article_), None,
                 {t_h2, t_h3, t_p}, <<kw_share>>, <<Sel(<<>>, {c_inner_ar}, <<>>)>>,
                 5, 15000, 3000, 60000)

\* A configuration whose noise keyword is written with a capital letter.
caps_config ==
    DomainConfig(sandesh_custom, Sel(<<>>, {c_story}, <<>>), None, None, {t_p},
                 <<kw_Share>>, <<>>, 5, 15000, 3000, 60000)

\* A configuration whose name is the empty string.
nameless_config ==
    DomainConfig(<<>>, Sel(<<>>, {c_story}, <<>>), None, None, {t_p}, <<>>, <<>>,
                 5, 15000, 3000, 60000)

Cfg(ref) ==
    CASE ref = "SANDESH_CONFIG" -> SANDESH_CONFIG
      [] ref = "TV9_GUJARATI_CONFIG" -> TV9_GUJARATI_CONFIG
      [] ref = "GUJARAT_SAMACHAR_CONFIG" -> GUJARAT_SAMACHAR_CONFIG
      [] ref = "AAJTAK_CONFIG" -> AAJTAK_CONFIG
      [] ref = "bbc_config" -> bbc_config
      [] ref = "custom_config" -> custom_config
      [] ref = "sandesh_v2" -> sandesh_v2
      [] ref = "desk_config" -> desk_config
      [] ref = "bad_config" -> bad_config
      [] ref = "nameless_config" -> nameless_config
      [] ref = "story_config" -> story_config
      [] ref = "caps_config" -> caps_config

(***************************************************************************)
(* DomainRegistry                                                          *)
(***************************************************************************)
\* d[k] = v of a Python dict
Put(d, k, v) == [x \in DOMAIN d \cup {k} |-> IF x = k THEN v ELSE d[x]]

\* d.get(k)
Get(d, k) == IF k \in DOMAIN d THEN Some(d[k]) ELSE None

\* for domain in domains: _domain_map[domain.lower()] = name
RECURSIVE BindDomains(_, _, _)
BindDomains(dmap, domains, name) ==
    IF domains = <<>> THEN dmap
    ELSE BindDomains(Put(dmap, Lower(Head(domains)), name), Tail(domains), name)

\* Mutant: a registration first drops the hostnames bound to its name before
register_Pruning(reg, ref, domains) ==
    LET name == Cfg(ref).domain_name
        kept == {h \in DOMAIN reg.domain_map : reg.domain_map[h] # name}
        pruned == [h \in kept |-> reg.domain_map[h]]
    IN  [configs |-> Put(reg.configs, name, ref),
         domain_map |->
             IF domains.some /\ domains.v # <<>>
             THEN BindDomains(pruned, domains.v, name)
             ELSE Put(pruned, Lower(name), name)]

\* Mutant: the configuration is stored under the lower-cased name
register_LowerName(reg, ref, domains) ==
    LET name == Cfg(ref).domain_name
    IN  [configs |-> Put(reg.configs, Lower(name), ref),
         domain_map |->
             IF domains.some /\ domains.v # <<>>
             THEN BindDomains(reg.domain_map, domains.v, name)
             ELSE Put(reg.domain_map, Lower(name), name)]

\* DomainRegistry.register: the registry [configs, domain_map] after the call.
\* domains is None or Some(list); None and the empty list are both falsy.
register(reg, ref, domains) ==
    LET name == Cfg(ref).domain_name
    IN  [configs |-> Put(reg.configs, name, ref),
         domain_map |->
             IF domains.some /\ domains.v # <<>>
             THEN BindDomains(reg.domain_map, domains.v, name)
             ELSE Put(reg.domain_map, Lower(name), name)]

\* DomainRegistry.get_config_by_name
get_config_by_name(reg, name) == Get(reg.configs, name)

\* Mutant: the host is looked up as written, without lower()
get_config_NoLower(reg, url) ==
    LET domain == _extract_domain(url)
        config_name == Get(reg.domain_map, domain)
    IN  IF config_name.some /\ config_name.v # <<>>
        THEN Get(reg.configs, config_name.v)
        ELSE None

\* DomainRegistry.get_config: a name that is the empty string is falsy
get_config(reg, url) ==
    LET domain == _extract_domain(url)
        config_name == Get(reg.domain_map, Lower(domain))
    IN  IF config_name.some /\ config_name.v # <<>>
        THEN Get(reg.configs, config_name.v)
        ELSE None

EmptyRegistry == [configs |-> <<>>, domain_map |-> <<>>]

\* The module-level registry after the four register calls of import time
ImportedRegistry ==
    LET r1 == register(EmptyRegistry, "SANDESH_CONFIG",
                       Some(<<sandesh \o DotCom, Www \o sandesh \o DotCom>>))
        r2 == register(r1, "TV9_GUJARATI_CONFIG",
                       Some(<<tv9gujarati \o DotCom, Www \o tv9gujarati \o DotCom>>))
        r3 == register(r2, "GUJARAT_SAMACHAR_CONFIG",
                       Some(<<gujaratsamachar \o DotCom, Www \o gujaratsamachar \o DotCom>>))
    IN  register(r3, "AAJTAK_CONFIG", Some(<<aajtak \o DotIn, Www \o aajtak \o DotIn>>))

(***************************************************************************)
(* The parsed document (BeautifulSoup).  A document is the sequence of its *)
(* nodes in document order; a node is an element or a text node and names  *)
(* its parent by position (0: the document itself).  decompose() removes a *)
(* subtree: the set dead holds the positions removed so far.               *)
(***************************************************************************)
Elem(tag, classes, parent) ==
    [kind |-> "elem", tag |-> tag, class |-> classes, parent |-> parent, text |-> <<>>]

TextNode(text, parent) ==
    [kind |-> "text", tag |-> <<>>, class |-> <<>>, parent |-> parent, text |-> text]

RECURSIVE IsAncestor(_, _, _)
\* a is a proper ancestor of node j
IsAncestor(doc, a, j) ==
    IF j = 0 \/ doc[j].parent = 0 THEN FALSE
    ELSE doc[j].parent = a \/ IsAncestor(doc, a, doc[j].parent)

Descendants(doc, i) == {j \in 1..Len(doc) : IsAncestor(doc, i, j)}

\* Tag.decompose()
decompose(doc, dead, i) == dead \cup {i} \cup Descendants(doc, i)

Whitespace == {" ", "\n", "\t", "\r"}

\* str.strip()
Strip(s) ==
    IF \A i \in 1..Len(s) : s[i] \in Whitespace THEN <<>>
    ELSE LET first == CHOOSE i \in 1..Len(s) :
                          s[i] \notin Whitespace /\ \A j \in 1..(i - 1) : s[j] \in Whitespace
             last == CHOOSE i \in 1..Len(s) :
                          s[i] \notin Whitespace /\ \A j \in (i + 1)..Len(s) : s[j] \in Whitespace
         IN  Slice(s, first - 1, last)

RECURSIVE Concat(_)
\* "".join(parts)
Concat(parts) == IF parts = <<>> THEN <<>> ELSE Head(parts) \o Concat(Tail(parts))

\* The positions of a set, in document order
RECURSIVE InOrder(_)
InOrder(S) ==
    IF S = {} THEN <<>>
    ELSE LET m == CHOOSE x \in S : \A y \in S : x <= y
         IN  <<m>> \o InOrder(S \ {m})

\* Tag.get_text(strip=True): the stripped, non-empty strings below the element,
\* concatenated.  A decomposed element has no contents left.
get_text(doc, dead, i) ==
    LET strings == {j \in Descendants(doc, i) :
                        /\ j \notin dead
                        /\ doc[j].kind = "text"
                        /\ Strip(doc[j].text) # <<>>}
        order == InOrder(strings)
    IN  Concat([k \in 1..Len(order) |-> Strip(doc[order[k]].text)])

\* An element matches a compound selector
Matches(node, sel) ==
    /\ node.kind = "elem"
    /\ sel.tag = <<>> \/ node.tag = sel.tag
    /\ \A c \in sel.classes : c \in Range(node.class)
    /\ sel.contains = <<>> \/ \E c \in Range(node.class) : Contains(c, sel.contains)

\* soup.select(selector) for a valid selector: the matching elements still in
\* the tree, in document order
select(doc, dead, sel) ==
    InOrder({j \in 1..Len(doc) : j \notin dead /\ Matches(doc[j], sel)})

\* soup.select_one(selector): the first match or None
select_one(doc, dead, sel) ==
    LET found == select(doc, dead, sel)
    IN  IF found = <<>> THEN None ELSE Some(found[1])

(***************************************************************************)
(* The Engine: main.py lines 192-258, on the parsed document, the located  *)
(* container first_story and the configuration.                            *)
(***************************************************************************)
Return(value) == [kind |-> "return", value |-> value]

Raise(exc) == [kind |-> "raise", exc |-> exc]

IdentChars == Letters \cup Range(Digits) \cup {"-", "_"}

\* The class name can be written after "." in a selector
IsCssIdent(s) ==
    /\ s # <<>>
    /\ \A i \in 1..Len(s) : s[i] \in IdentChars
    /\ s[1] \notin Range(Digits)

\* next(cls for cls in first_story.get("class", []) if cls.startswith(pattern)),
\* or None when the pattern is unset or empty
article_id(doc, first_story, cfg) ==
    IF cfg.article_id_pattern.some /\ cfg.article_id_pattern.v # <<>>
    THEN LET cls == doc[first_story].class
             hits == {i \in 1..Len(cls) : StartsWith(cls[i], cfg.article_id_pattern.v)}
         IN  IF hits = {} THEN None
             ELSE Some(cls[CHOOSE i \in hits : \A j \in hits : i <= j])
    ELSE None

\* f"div.story.{article_id}"
BlockSelector(id) ==
    IF IsCssIdent(id) THEN Sel(t_div, {c_story, id}, <<>>) ELSE BadSel

\* story_blocks
story_blocks(doc, first_story, id) ==
    IF id.some THEN select(doc, {}, BlockSelector(id.v)) ELSE <<first_story>>

RECURSIVE DecomposeAll(_, _, _)
\* for elem in elems: elem.decompose()
DecomposeAll(doc, dead, elems) ==
    IF elems = <<>> THEN dead
    ELSE DecomposeAll(doc, decompose(doc, dead, Head(elems)), Tail(elems))

\* Mutant: nothing is removed
RemoveElements_Skip(doc, dead, selectors) == dead

RECURSIVE RemoveElements(_, _, _)
\* for selector in elements_to_remove: for elem in soup.select(selector): ...
RemoveElements(doc, dead, selectors) ==
    IF selectors = <<>> THEN dead
    ELSE RemoveElements(doc, DecomposeAll(doc, dead, select(doc, dead, Head(selectors))),
                        Tail(selectors))

\* re.compile("|".join(re.escape(kw) ...), re.IGNORECASE).search(text)
MatchesNoisePattern(text, keywords) ==
    \E i \in 1..Len(keywords) : Contains(Lower(text), Lower(keywords[i]))

SmallContainers == {t_div, t_span, t_aside, t_footer, t_nav}

SmallContainerLimit == 200

\* Mutant: a container with exactly 200 characters counts as small
IsSmallContainer_Inclusive(doc, dead, parent) ==
    /\ parent # 0
    /\ doc[parent].tag \in SmallContainers
    /\ Len(get_text(doc, dead, parent)) <= SmallContainerLimit

\* The parent of a matching string is removed when it is a small container
IsSmallContainer(doc, dead, parent) ==
    /\ parent # 0
    /\ doc[parent].tag \in SmallContainers
    /\ Len(get_text(doc, dead, parent)) < SmallContainerLimit

RECURSIVE NoiseLoop(_, _, _)
\* The loop over the strings found before the loop started.  A string inside a
\* subtree decomposed meanwhile has no parent attribute left: AttributeError,
\* continue.
NoiseLoop(doc, dead, strings) ==
    IF strings = <<>> THEN dead
    ELSE LET elem == Head(strings)
             parent == doc[elem].parent
         IN  IF elem \in dead THEN NoiseLoop(doc, dead, Tail(strings))
             ELSE IF IsSmallContainer(doc, dead, parent)
                  THEN NoiseLoop(doc, decompose(doc, dead, parent), Tail(strings))
                  ELSE NoiseLoop(doc, dead, Tail(strings))

\* if config.noise_keywords: ... (lines 216-229)
RemoveNoise(doc, dead, keywords) ==
    IF keywords = <<>> THEN dead
    ELSE NoiseLoop(doc, dead,
                   InOrder({j \in 1..Len(doc) :
                                /\ j \notin dead
                                /\ doc[j].kind = "text"
                                /\ MatchesNoisePattern(doc[j].text, keywords)}))

\* is_noise: the text is lower-cased, the keywords are not
is_noise(text, noise_keywords) ==
    \E i \in 1..Len(noise_keywords) : Contains(Lower(text), noise_keywords[i])

t_related == <<"r","e","l","a","t","e","d">>

t_also == <<"a","l","s","o">>

\* tag.find_parent(class_=re.compile(r"related|also"))
HasRelatedParent(doc, j) ==
    \E a \in 1..Len(doc) :
        /\ IsAncestor(doc, a, j)
        /\ \E c \in Range(doc[a].class) : Contains(c, t_related) \/ Contains(c, t_also)

\* f"<{tag.name}>{text}</{tag.name}>"
FormatBlock(tag, text) == <<"<">> \o tag \o <<">">> \o text \o <<"<", "/">> \o tag \o <<">">>

\* Mutant: no duplicate check
Survives_NoSeen(doc, j, text, cfg, seen) ==
    /\ ~(Len(text) < cfg.min_text_length)
    /\ ~is_noise(text, cfg.noise_keywords)
    /\ ~(doc[j].tag \in {t_h3, t_h4} /\ HasRelatedParent(doc, j))

\* Mutant: a text of exactly min_text_length characters is dropped
Survives_Exclusive(doc, j, text, cfg, seen) ==
    /\ ~(Len(text) <= cfg.min_text_length)
    /\ ~is_noise(text, cfg.noise_keywords)
    /\ ~(doc[j].tag \in {t_h3, t_h4} /\ HasRelatedParent(doc, j))
    /\ text \notin seen

\* One candidate element passes the filters of lines 239-253
Survives(doc, j, text, cfg, seen) ==
    /\ ~(Len(text) < cfg.min_text_length)
    /\ ~is_noise(text, cfg.noise_keywords)
    /\ ~(doc[j].tag \in {t_h3, t_h4} /\ HasRelatedParent(doc, j))
    /\ text \notin seen

RECURSIVE HarvestTags(_, _, _, _, _)
\* The inner loop of the harvest over the candidates of one block; acc is
\* [seen, output]
HarvestTags(doc, dead, cfg, tags, acc) ==
    IF tags = <<>> THEN acc
    ELSE LET j == Head(tags)
             text == get_text(doc, dead, j)
         IN  IF Survives(doc, j, text, cfg, acc.seen)
             THEN HarvestTags(doc, dead, cfg, Tail(tags),
                              [seen |-> acc.seen \cup {text},
                               output |-> Append(acc.output, FormatBlock(doc[j].tag, text))])
             ELSE HarvestTags(doc, dead, cfg, Tail(tags), acc)

\* block.find_all(config.allowed_tags, recursive=True)
find_all_tags(doc, dead, block, allowed_tags) ==
    InOrder({j \in Descendants(doc, block) :
                 j \notin dead /\ doc[j].kind = "elem" /\ doc[j].tag \in allowed_tags})

RECURSIVE HarvestBlocks(_, _, _, _, _)
\* for block in story_blocks: ...
HarvestBlocks(doc, dead, cfg, blocks, acc) ==
    IF blocks = <<>> THEN acc
    ELSE HarvestBlocks(doc, dead, cfg, Tail(blocks),
                       HarvestTags(doc, dead, cfg,
                                   find_all_tags(doc, dead, Head(blocks), cfg.allowed_tags),
                                   acc))

RECURSIVE Join_SingleNewline(_, _)
\* Mutant: the parts are joined by one newline
Join_SingleNewline(parts, sep) ==
    IF parts = <<>> THEN <<>>
    ELSE IF Len(parts) = 1 THEN parts[1]
    ELSE parts[1] \o <<"\n">> \o Join_SingleNewline(Tail(parts), sep)

RECURSIVE Join(_, _)
\* sep.join(parts)
Join(parts, sep) ==
    IF parts = <<>> THEN <<>>
    ELSE IF Len(parts) = 1 THEN parts[1]
    ELSE parts[1] \o sep \o Join(Tail(parts), sep)

\* The pairs emitted by the harvest, after the removals
Harvest(doc, first_story, cfg) ==
    LET blocks == story_blocks(doc, first_story, article_id(doc, first_story, cfg))
        dead1 == RemoveElements(doc, {}, cfg.elements_to_remove)
        dead2 == RemoveNoise(doc, dead1, cfg.noise_keywords)
    IN  HarvestBlocks(doc, dead2, cfg, blocks, [seen |-> {}, output |-> <<>>]).output

\* What happens to an exception raised by the code after the try statement
\* (lines 192-258): nothing catches it
OnEngineError(exc) == Raise(exc)

\* Mutant: an empty harvest is returned as None
Engine_EmptyIsNone(doc, first_story, cfg) ==
    LET id == article_id(doc, first_story, cfg)
    IN  IF id.some /\ ~BlockSelector(id.v).valid
        THEN OnEngineError("SelectorSyntaxError")
        ELSE IF \E i \in 1..Len(cfg.elements_to_remove) : ~cfg.elements_to_remove[i].valid
        THEN OnEngineError("SelectorSyntaxError")
        ELSE IF Harvest(doc, first_story, cfg) = <<>>
        THEN Return(None)
        ELSE Return(Some(Join(Harvest(doc, first_story, cfg), <<"\n", "\n">>)))

\* Lines 192-258: the value returned, or the exception raised by soup.select
\* on a string that is no selector.  first_story is an element here (line 176
\* has passed), so line 193 never returns.
Engine(doc, first_story, cfg) ==
    LET id == article_id(doc, first_story, cfg)
    IN  IF id.some /\ ~BlockSelector(id.v).valid
        THEN OnEngineError("SelectorSyntaxError")
        ELSE IF \E i \in 1..Len(cfg.elements_to_remove) : ~cfg.elements_to_remove[i].valid
        THEN OnEngineError("SelectorSyntaxError")
        ELSE Return(Some(Join(Harvest(doc, first_story, cfg), <<"\n", "\n">>)))

(***************************************************************************)
(* Rendered documents (what page.content() can return, parsed).            *)
(***************************************************************************)
txt_hi == <<"h","i">>

txt_hello_world == <<" ","h","e","l","l","o"," ","w","o","r","l","d"," ">>

txt_inside_removed == <<"i","n","s","i","d","e"," ","r","e","m","o","v","e","d">>

txt_five_accused == <<"f","i","v","e"," ","a","c","c","u","s","e","d"," ","a","r","r","e","s","t","e","d"," ","i","n"," ","p","o","r","b","a","n","d","a","r">>

txt_blank == <<" ","\n"," ">>

txt_two_lines == <<"h","e","l","l","o","\n"," ","\n"," ","w","o","r","l","d">>

\* No element carries the class story
doc_no_container ==
    <<Elem(t_body, <<>>, 0),
      Elem(t_p, <<>>, 1),
      TextNode(txt_hello_world, 2)>>

\* The container is there and holds only whitespace
doc_blank_container ==
    <<Elem(t_div, <<c_story, c_article_123>>, 0),
      Elem(t_p, <<>>, 1),
      TextNode(txt_blank, 2)>>

\* <div class="story article-123"><p>hi</p><p> hello world </p></div>
doc_story ==
    <<Elem(t_div, <<c_story, c_article_123>>, 0),
      Elem(t_p, <<>>, 1),
      TextNode(txt_hi, 2),
      Elem(t_p, <<>>, 1),
      TextNode(txt_hello_world, 4)>>

\* A story split over two containers with the same id class, a repeated
\* paragraph and a block the sandesh configurations remove
doc_split ==
    <<Elem(t_div, <<c_story, c_article_123>>, 0),
      Elem(t_p, <<>>, 1),
      TextNode(txt_hello_world, 2),
      Elem(t_div, <<c_inner_ar>>, 1),
      Elem(t_p, <<>>, 4),
      TextNode(txt_inside_removed, 5),
      Elem(t_div, <<c_story, c_article_123>>, 0),
      Elem(t_p, <<>>, 7),
      TextNode(txt_hello_world, 8),
      Elem(t_p, <<>>, 7),
      TextNode(txt_five_accused, 10)>>

txt_abcde == <<"a","b","c","d","e">>

txt_abcd == <<"a","b","c","d">>

txt_related_story == <<"r","e","l","a","t","e","d"," ","s","t","o","r","y">>

txt_share == <<"s","h","a","r","e">>

txt_share_your_view == <<"s","h","a","r","e"," ","y","o","u","r"," ","v","i","e","w"," ","n","o","w">>

\* 194 and 195 characters: with the 5 of "share", 199 and 200
txt_a_194 == [i \in 1..194 |-> "a"]

txt_b_195 == [i \in 1..195 |-> "b"]

\* Two containers hold the keyword "share" next to a paragraph, one with 199
\* characters of text in all and one with 200; a paragraph holds it too
doc_noise ==
    <<Elem(t_div, <<c_story, c_article_123>>, 0),
      Elem(t_div, <<>>, 1),
      TextNode(txt_share, 2),
      Elem(t_p, <<>>, 2),
      TextNode(txt_a_194, 4),
      Elem(t_div, <<>>, 1),
      TextNode(txt_share, 6),
      Elem(t_p, <<>>, 6),
      TextNode(txt_b_195, 8),
      Elem(t_p, <<>>, 1),
      TextNode(txt_share_your_view, 10)>>

\* The same text under a heading and under a paragraph, texts of 5 and of 4
\* characters, and a heading and a paragraph inside a related-articles box
doc_dup ==
    <<Elem(t_div, <<c_story, c_article_123>>, 0),
      Elem(t_h2, <<>>, 1),
      TextNode(txt_hello_world, 2),
      Elem(t_p, <<>>, 1),
      TextNode(txt_hello_world, 4),
      Elem(t_p, <<>>, 1),
      TextNode(txt_abcde, 6),
      Elem(t_p, <<>>, 1),
      TextNode(txt_abcd, 8),
      Elem(t_div, <<c_related_articles>>, 1),
      Elem(t_h3, <<>>, 10),
      TextNode(txt_related_story, 11),
      Elem(t_p, <<>>, 10),
      TextNode(txt_five_accused, 13)>>

\* A container all of whose candidates are filtered out by story_config: a
\* text under the minimum length, a text with a noise keyword, and a heading
\* inside a related-articles box
doc_filtered ==
    <<Elem(t_div, <<c_story, c_article_123>>, 0),
      Elem(t_p, <<>>, 1),
      TextNode(txt_hi, 2),
      Elem(t_p, <<>>, 1),
      TextNode(txt_share_your_view, 4),
      Elem(t_div, <<c_related_articles>>, 1),
      Elem(t_h3, <<>>, 6),
      TextNode(txt_related_story, 7)>>

\* The id class article-123 on an article element, on a div without the class
\* story and on a div with it
doc_mixed ==
    <<Elem(t_article, <<c_story, c_article_123>>, 0),
      Elem(t_p, <<>>, 1),
      TextNode(txt_hello_world, 2),
      Elem(t_div, <<c_article_123>>, 0),
      Elem(t_p, <<>>, 4),
      TextNode(txt_five_accused, 5),
      Elem(t_div, <<c_story, c_article_123>>, 0),
      Elem(t_p, <<>>, 7),
      TextNode(txt_inside_removed, 8)>>

Docs == {"doc_no_container", "doc_blank_container", "doc_story", "doc_split"}

EngineDocs == Docs \cup {"doc_noise", "doc_dup", "doc_mixed", "doc_filtered"}

Doc(ref) ==
    CASE ref = "doc_no_container" -> doc_no_container
      [] ref = "doc_blank_container" -> doc_blank_container
      [] ref = "doc_story" -> doc_story
      [] ref = "doc_split" -> doc_split
      [] ref = "doc_noise" -> doc_noise
      [] ref = "doc_dup" -> doc_dup
      [] ref = "doc_mixed" -> doc_mixed
      [] ref = "doc_filtered" -> doc_filtered

(***************************************************************************)
(* The Generic Fallback: try_generic_fallback (main.py lines 101-117).     *)
(* env is what the network and trafilatura do in this call: fetch and      *)
(* extract are each Raise(e), Return(None) or Return(Some(text)).          *)
(***************************************************************************)
\* Python truthiness of an optional string
Truthy(s) == s.some /\ s.v # <<>>

RECURSIVE Split(_)
\* result.split('\n')
Split(s) ==
    LET i == FindAny(s, {"\n"}, 0)
    IN  IF i = -1 THEN <<s>>
        ELSE <<Slice(s, 0, i)>> \o Split(Slice(s, i + 1, Len(s)))

\* [f"<p>{line.strip()}</p>" for line in lines if line.strip()]
RECURSIVE Paragraphs(_)
Paragraphs(lines) ==
    IF lines = <<>> THEN <<>>
    ELSE IF Strip(Head(lines)) = <<>> THEN Paragraphs(Tail(lines))
    ELSE <<FormatBlock(t_p, Strip(Head(lines)))>> \o Paragraphs(Tail(lines))

\* Mutant: the handler of try_generic_fallback lets the exception through
OnFallbackErrorPropagates(exc) == Raise(exc)

\* except Exception as e: log it; return None
OnFallbackError(exc) == Return(None)

try_generic_fallback(env) ==
    IF env.fetch.kind = "raise" THEN OnFallbackError(env.fetch.exc)
    ELSE IF ~Truthy(env.fetch.value) THEN Return(None)
    ELSE IF env.extract.kind = "raise" THEN OnFallbackError(env.extract.exc)
    ELSE IF ~Truthy(env.extract.value) THEN Return(None)
    ELSE Return(Some(Join(Paragraphs(Split(env.extract.value.v)), <<"\n", "\n">>)))

page_html == <<"<","h","t","m","l",">">>

FetchOutcomes == {Raise("FetchError"), Return(None), Return(Some(<<>>)), Return(Some(page_html))}

ExtractOutcomes ==
    {Raise("ExtractError"), Return(None), Return(Some(<<>>)),
     Return(Some(txt_two_lines)), Return(Some(txt_blank))}

\* trafilatura.extract runs only on a page that was downloaded
FallbackEnvs ==
    {[fetch |-> f, extract |-> Return(None)] :
        f \in {x \in FetchOutcomes : x.kind = "raise" \/ ~Truthy(x.value)}}
    \cup {[fetch |-> Return(Some(page_html)), extract |-> e] : e \in ExtractOutcomes}

(***************************************************************************)
(* The state.                                                              *)
(*   registry     the module-level DomainRegistry: configs, domain_map     *)
(*   nreg         register() calls made since import (bounded)             *)
(*   browser      the module-level _browser: "none", "connected" or        *)
(*                "disconnected"                                           *)
(*   pc           where the call in progress stands ("idle": none)         *)
(*   args         the operation called and its arguments                   *)
(*   config, context, html, first_story   locals of extract_article        *)
(*   outcome      what the call returned or raised (when pc = "done")      *)
(*   hist         what happened in the call: the steps that raised, the    *)
(*                fallback's environment and result, whether the Engine    *)
(*                ran, the clicks attempted                                *)
(*   cache        api._cache: cache key -> [data, expires_at]              *)
(*   now          the clock datetime.now() reads, in seconds               *)
(*   request      the POST /extract request being served, or None          *)
(*   response     the HTTP response to it (when pc = "responded")          *)
(*   live         the browser processes launched by get_browser that are   *)
(*                alive                                                    *)
(*   batch        the POST /generate request being served: its source      *)
(*                URLs, what extract_article gave for each, the texts      *)
(*                collected and the context handed to the generator        *)
(*   workers      where each thread of the pool stands inside get_browser  *)
(*   writer       the register call in progress on another thread          *)
(*   reader       the get_config call in progress on another thread        *)
(***************************************************************************)
VARIABLES registry, nreg, browser, pc, args, config, context, html, first_story,
          outcome, hist, cache, now, request, response, live, batch, workers, writer,
          reader

vars == <<registry, nreg, browser, pc, args, config, context, html, first_story,
          outcome, hist, cache, now, request, response, live, batch, workers, writer,
          reader>>

\* The state of the REST service
api == <<cache, now, request, response>>

\* The state of the batch and of the operations running concurrently
conc == <<batch, workers, writer, reader>>

NoArgs == [op |-> "none", url |-> <<>>, config |-> None, domain_name |-> None]

NoHist == [raised |-> {}, fallback |-> None, engine |-> FALSE, clicks |-> 0]

Pending == [kind |-> "pending"]

\* No POST /generate is being served
NoBatch == [stage |-> "idle"]

\* thread_pool = ThreadPoolExecutor(max_workers=4)
max_workers == 4

\* The threads of the pool
Workers == 1..max_workers

Url(host) == Https \o SlashSlash \o host \o Path

\* The hosts of the URLs looked up and extracted
Hosts ==
    {sandesh \o DotCom,
     Www \o sandesh \o DotCom,
     WwwUpper \o SandeshMixed \o DotComUpper,
     sandesh \o DotCom \o Port,
     bbc \o DotCom,
     Www \o bbc \o DotCom,
     example \o DotCom}

Urls == {Url(h) : h \in Hosts}

Names == {sandesh, nonexistent, bbc_gujarati, NewsDesk}

\* What register is called with after import
RegisterInputs ==
    {[config |-> "bbc_config", domains |-> Some(<<bbc \o DotCom>>)],
     [config |-> "bbc_config", domains |-> Some(<<bbc \o DotCom, Www \o bbc \o DotCom>>)],
     [config |-> "sandesh_v2", domains |-> Some(<<SandeshMixed \o DotComUpper>>)],
     [config |-> "desk_config", domains |-> None],
     [config |-> "bad_config", domains |-> Some(<<>>)],
     [config |-> "nameless_config", domains |-> None]}

\* What extract_article is called with
CallUrls == {Url(sandesh \o DotCom), Url(example \o DotCom)}

CallConfigs == {None, Some("sandesh_v2"), Some("bad_config")}

CallNames == {None, Some(<<>>), Some(sandesh), Some(nonexistent)}

Init ==
    /\ registry = ImportedRegistry
    /\ nreg = 0
    /\ browser = "none"
    /\ pc = "idle"
    /\ args = NoArgs
    /\ config = None
    /\ context = "none"
    /\ html = None
    /\ first_story = None
    /\ outcome = Pending
    /\ hist = NoHist
    /\ cache = <<>>
    /\ now = 0
    /\ request = None
    /\ response = None
    /\ live = 0
    /\ batch = NoBatch
    /\ workers = [w \in Workers |-> "idle"]
    /\ writer = None
    /\ reader = None

locals == <<config, context, html, first_story>>

(***************************************************************************)
(* The registry's operations.                                              *)
(***************************************************************************)
\* register_domain(config, domains).  Registration is an administrative
\* operation serialized with the calls: it happens between them.
Register(in) ==
    /\ pc = "idle"
    /\ nreg < MaxRegister
    /\ registry' = register(registry, in.config, in.domains)
    /\ nreg' = nreg + 1
    /\ UNCHANGED <<browser, pc, args, locals, outcome, hist, api, live, conc>>

\* get_config_for_url(url)
GetConfigForUrl(url) ==
    /\ pc = "idle"
    /\ args' = [NoArgs EXCEPT !.op = "get_config_for_url", !.url = url]
    /\ outcome' = Return(get_config(registry, url))
    /\ pc' = "done"
    /\ UNCHANGED <<registry, nreg, browser, locals, hist, api, live, conc>>

\* get_config_by_name(name)
GetConfigByName(name) ==
    /\ pc = "idle"
    /\ args' = [NoArgs EXCEPT !.op = "get_config_by_name", !.domain_name = Some(name)]
    /\ outcome' = Return(get_config_by_name(registry, name))
    /\ pc' = "done"
    /\ UNCHANGED <<registry, nreg, browser, locals, hist, api, live, conc>>

(***************************************************************************)
(* extract_article(url, config, domain_name), step by step.                *)
(***************************************************************************)
Call(url, cfg, name) ==
    /\ pc = "idle"
    /\ args' = [op |-> "extract_article", url |-> url, config |-> cfg, domain_name |-> name]
    /\ config' = cfg
    /\ pc' = "resolve"
    /\ UNCHANGED <<registry, nreg, browser, context, html, first_story, outcome, hist, api, live, conc>>

\* Mutant: the name is looked up even when a config object was passed
resolve_config_NameFirst(reg, url, cfg, domain_name) ==
    IF Truthy(domain_name) THEN get_config_by_name(reg, domain_name.v) ELSE cfg

\* Lines 96-99: the configuration the call goes on with, or None.  The URL is
\* not looked at and nothing is raised.
resolve_config(reg, url, cfg, domain_name) ==
    IF ~cfg.some
    THEN IF Truthy(domain_name) THEN get_config_by_name(reg, domain_name.v) ELSE cfg
    ELSE cfg

\* Lines 96-121: with no configuration the Generic Fallback is all there is
Resolve ==
    /\ pc = "resolve"
    /\ config' = resolve_config(registry, args.url, args.config, args.domain_name)
    /\ pc' = IF config'.some THEN "get_browser" ELSE "fallback"
    /\ UNCHANGED <<registry, nreg, browser, args, context, html, first_story, outcome, hist, api, live, conc>>

\* Mutant: the outer try has no handler
OnRenderErrorPropagates == "propagate"

\* Where an exception goes that is raised inside the outer try (lines 126-189):
\* except Exception: return try_generic_fallback(url)
OnRenderError == "fallback"

\* Where an exception goes that is raised inside the inner try (lines 143-166):
\* except Exception: context.close(); return try_generic_fallback(url)
OnNavigationError == "close_after_failure"

\* The step named step raises exc, which the handler named by target
\* receives; h is the history up to the raise
ThrowFrom(h, step, exc, target) ==
    /\ hist' = [h EXCEPT !.raised = @ \cup {step}]
    /\ IF target = "propagate"
       THEN pc' = "done" /\ outcome' = Raise(exc)
       ELSE pc' = target /\ UNCHANGED outcome

\* The step named step raises exc, which the handler named by target receives
Throw(step, exc, target) == ThrowFrom(hist, step, exc, target)

\* get_browser launches when there is no browser or it is disconnected
NeedsLaunch(b) == b = "none" \/ b = "disconnected"

\* Line 127, get_browser (lines 17-38)
GetBrowser ==
    /\ pc = "get_browser"
    /\ \/ /\ browser' = "connected"
          /\ live' = IF NeedsLaunch(browser) THEN live + 1 ELSE live
          /\ pc' = "new_context"
          /\ UNCHANGED <<outcome, hist>>
       \/ /\ NeedsLaunch(browser)
          /\ Throw("get_browser", "PlaywrightError", OnRenderError)
          /\ UNCHANGED <<browser, live>>
    /\ UNCHANGED <<registry, nreg, args, locals, api, conc>>

\* The browser process dies.  Only get_browser reads the browser's state, so
\* a death during a call is taken between calls.
BrowserDies ==
    /\ pc = "idle"
    /\ browser = "connected"
    /\ browser' = "disconnected"
    /\ live' = live - 1
    /\ UNCHANGED <<registry, nreg, pc, args, locals, outcome, hist, api, conc>>

\* Lines 129-131
NewContext ==
    /\ pc = "new_context"
    /\ \/ /\ context' = "open"
          /\ pc' = "new_page"
          /\ UNCHANGED <<outcome, hist>>
       \/ /\ Throw("new_context", "PlaywrightError", OnRenderError)
          /\ UNCHANGED context
    /\ UNCHANGED <<registry, nreg, browser, args, config, html, first_story, api, live, conc>>

\* Line 133
NewPage ==
    /\ pc = "new_page"
    /\ \/ pc' = "route" /\ UNCHANGED <<outcome, hist>>
       \/ Throw("new_page", "PlaywrightError", OnRenderError)
    /\ UNCHANGED <<registry, nreg, browser, args, locals, api, live, conc>>

\* Lines 136-141
Route ==
    /\ pc = "route"
    /\ \/ pc' = "goto" /\ UNCHANGED <<outcome, hist>>
       \/ Throw("route", "PlaywrightError", OnRenderError)
    /\ UNCHANGED <<registry, nreg, browser, args, locals, api, live, conc>>

\* Line 145
Goto ==
    /\ pc = "goto"
    /\ \/ pc' = "wait_for_selector" /\ UNCHANGED <<outcome, hist>>
       \/ Throw("goto", "PlaywrightError", OnNavigationError)
    /\ UNCHANGED <<registry, nreg, browser, args, locals, api, live, conc>>

\* if config.load_more_selector:
AfterWait(cfg) == IF cfg.load_more_selector.some THEN "click" ELSE "content"

\* Lines 148-152: a failure is logged and the render goes on
WaitForSelector ==
    /\ pc = "wait_for_selector"
    /\ \/ pc' = AfterWait(Cfg(config.v)) /\ UNCHANGED <<outcome, hist>>
       \/ Throw("wait_for_selector", "PlaywrightError", AfterWait(Cfg(config.v)))
    /\ UNCHANGED <<registry, nreg, browser, args, locals, api, live, conc>>

\* Mutant: the click is not wrapped, its exception reaches the handler of the
\* inner try
OnClickErrorAborts == "close_after_failure"

\* Where an exception of the click goes (lines 156-159): except: pass
OnClickError == "content"

\* Lines 155-159: one click on the first match; a failure is swallowed
Click ==
    /\ pc = "click"
    /\ LET clicked == [hist EXCEPT !.clicks = @ + 1]
       IN  \/ pc' = "content" /\ hist' = clicked /\ UNCHANGED outcome
           \/ ThrowFrom(clicked, "click", "PlaywrightError", OnClickError)
    /\ UNCHANGED <<registry, nreg, browser, args, locals, api, live, conc>>

\* Line 161
Content(d) ==
    /\ pc = "content"
    /\ \/ /\ html' = Some(d)
          /\ pc' = "close"
          /\ UNCHANGED <<outcome, hist>>
       \/ /\ Throw("content", "PlaywrightError", OnNavigationError)
          /\ UNCHANGED html
    /\ UNCHANGED <<registry, nreg, browser, args, config, context, first_story, api, live, conc>>

\* Lines 163-166: the handler of the inner try closes the context, inside the
\* outer try
CloseAfterFailure ==
    /\ pc = "close_after_failure"
    /\ \/ /\ context' = "closed"
          /\ pc' = "fallback"
          /\ UNCHANGED <<outcome, hist>>
       \/ /\ Throw("close", "PlaywrightError", OnRenderError)
          /\ UNCHANGED context
    /\ UNCHANGED <<registry, nreg, browser, args, config, html, first_story, api, live, conc>>

\* Line 168
Close ==
    /\ pc = "close"
    /\ \/ /\ context' = "closed"
          /\ pc' = "parse"
          /\ UNCHANGED <<outcome, hist>>
       \/ /\ Throw("close", "PlaywrightError", OnRenderError)
          /\ UNCHANGED context
    /\ UNCHANGED <<registry, nreg, browser, args, config, html, first_story, api, live, conc>>

\* Mutant: only the absence of the container is tested (as main_async.py does)
AfterParse_NoTextCheck(doc, found) == IF ~found.some THEN "fallback" ELSE "engine"

\* Lines 176-178: where the call goes once the container has been looked up
AfterParse(doc, found) ==
    IF ~found.some \/ get_text(doc, {}, found.v) = <<>> THEN "fallback" ELSE "engine"

\* Lines 173-178
Parse ==
    /\ pc = "parse"
    /\ LET sel == Cfg(config.v).article_container_selector
           found == select_one(Doc(html.v), {}, sel)
       IN  IF ~sel.valid
           THEN /\ Throw("parse", "SelectorSyntaxError", OnRenderError)
                /\ UNCHANGED first_story
           ELSE /\ first_story' = found
                /\ pc' = AfterParse(Doc(html.v), found)
                /\ UNCHANGED <<outcome, hist>>
    /\ UNCHANGED <<registry, nreg, browser, args, config, context, html, api, live, conc>>

\* Lines 192-258
RunEngine ==
    /\ pc = "engine"
    /\ outcome' = Engine(Doc(html.v), first_story.v, Cfg(config.v))
    /\ hist' = [hist EXCEPT !.engine = TRUE,
                            !.raised = IF outcome'.kind = "raise" THEN @ \cup {"engine"} ELSE @]
    /\ pc' = "done"
    /\ UNCHANGED <<registry, nreg, browser, args, locals, api, live, conc>>

\* return try_generic_fallback(url)
Fallback ==
    /\ pc = "fallback"
    /\ \E env \in FallbackEnvs :
          /\ outcome' = try_generic_fallback(env)
          /\ hist' = [hist EXCEPT !.fallback = Some([env |-> env, result |-> outcome'])]
    /\ pc' = "done"
    /\ UNCHANGED <<registry, nreg, browser, args, locals, api, live, conc>>

\* The caller has the result; the locals of the call are gone
Finish ==
    /\ pc = "done"
    /\ ~request.some
    /\ pc' = "idle"
    /\ args' = NoArgs
    /\ config' = None
    /\ context' = "none"
    /\ html' = None
    /\ first_story' = None
    /\ outcome' = Pending
    /\ hist' = NoHist
    /\ UNCHANGED <<registry, nreg, browser, api, live, conc>>

Next ==
    \/ \E in \in RegisterInputs : Register(in)
    \/ \E url \in Urls : GetConfigForUrl(url)
    \/ \E name \in Names : GetConfigByName(name)
    \/ \E url \in CallUrls, cfg \in CallConfigs, name \in CallNames : Call(url, cfg, name)
    \/ Resolve
    \/ GetBrowser
    \/ BrowserDies
    \/ NewContext
    \/ NewPage
    \/ Route
    \/ Goto
    \/ WaitForSelector
    \/ Click
    \/ \E d \in Docs : Content(d)
    \/ CloseAfterFailure
    \/ Close
    \/ Parse
    \/ RunEngine
    \/ Fallback
    \/ Finish

Spec == Init /\ [][Next]_vars

(***************************************************************************)
(* The Engine on its own: extract_article called with a configuration      *)
(* object, over a larger set of rendered documents.                        *)
(***************************************************************************)
EngineConfigs == {"sandesh_v2", "story_config", "caps_config", "custom_config"}

NextEngine ==
    \/ \E c \in EngineConfigs : Call(Url(sandesh \o DotCom), Some(c), None)
    \/ Resolve
    \/ GetBrowser
    \/ NewContext
    \/ NewPage
    \/ Route
    \/ Goto
    \/ WaitForSelector
    \/ Click
    \/ \E d \in EngineDocs : Content(d)
    \/ CloseAfterFailure
    \/ Close
    \/ Parse
    \/ RunEngine
    \/ Fallback
    \/ Finish

SpecEngine == Init /\ [][NextEngine]_vars

(***************************************************************************)
(* The REST service (api.py): POST /extract with its cache, and            *)
(* /cache/clear.  A request is served from the cache or by a call of       *)
(* extract_article(url, None, domain_name) on the thread pool.             *)
(***************************************************************************)
_cache_ttl == 300

\* The clock advances by half the TTL at a time
TickSeconds == _cache_ttl \div 2

Auto == <<"a","u","t","o">>

AutoDetected == <<"a","u","t","o","-","d","e","t","e","c","t","e","d">>

\* domain_name or default
OrElse(domain_name, default) == IF Truthy(domain_name) THEN domain_name.v ELSE default

\* get_cache_key: the string that is hashed (md5 is taken as injective)
get_cache_key(url, domain_name) == url \o <<":">> \o OrElse(domain_name, Auto)

\* Mutant: the cache is never hit
get_cached_content_AlwaysMiss(c, t, url, domain_name) == [value |-> None, cache |-> c]

\* get_cached_content at time t: the data returned, or None, and the cache
\* afterwards (an expired entry is deleted)
get_cached_content(c, t, url, domain_name) ==
    LET cache_key == get_cache_key(url, domain_name)
    IN  IF cache_key \in DOMAIN c
        THEN IF t < c[cache_key].expires_at
             THEN [value |-> Some(c[cache_key].data), cache |-> c]
             ELSE [value |-> None, cache |-> [k \in DOMAIN c \ {cache_key} |-> c[k]]]
        ELSE [value |-> None, cache |-> c]

\* set_cached_content at time t: the cache afterwards
set_cached_content(c, t, url, domain_name, data) ==
    Put(c, get_cache_key(url, domain_name),
        [data |-> data, expires_at |-> t + _cache_ttl])

\* The response the client gets for raise HTTPException(status_code, detail)
HTTPException(status_code, error) ==
    [status |-> status_code, body |-> [success |-> FALSE, error |-> error]]

\* The response the client gets for a returned dict
Ok(data) == [status |-> 200, body |-> data]

\* Lines 396-412
response_data(t, url, domain_name, content) ==
    [success |-> TRUE,
     content |-> content,
     metadata |-> [url |-> url,
                   domain_name |-> OrElse(domain_name, AutoDetected),
                   extracted_at |-> t,
                   content_length |-> Len(content),
                   cached |-> FALSE]]

\* The handlers of the try statement of the endpoint (lines 419-441): except
\* ValueError, then except Exception, which every exception raised in the try
\* block reaches that is no ValueError, the HTTPException of line 386 included
OnEndpointException(exc) ==
    IF exc.class = "ValueError"
    THEN HTTPException(404, "Domain configuration not found")
    ELSE HTTPException(500, "Extraction failed")

\* Line 385: content is None or content.strip() == ""
NoContent(content) == ~content.some \/ Strip(content.v) = <<>>

\* Mutant: the response is cached whatever it is
extract_article_endpoint_StoreAll(t, url, domain_name, result) ==
    IF result.kind = "raise"
    THEN [response |-> OnEndpointException([class |-> result.exc]), store |-> TRUE]
    ELSE IF NoContent(result.value)
    THEN [response |->
              OnEndpointException([class |-> "HTTPException",
                                   response |-> HTTPException(404, "No content extracted")]),
          store |-> TRUE]
    ELSE [response |-> Ok(response_data(t, url, domain_name, result.value.v)),
          store |-> TRUE]

\* Lines 373-441, once extract_article has returned or raised: the response,
\* and whether it is cached
extract_article_endpoint(t, url, domain_name, result) ==
    IF result.kind = "raise"
    THEN [response |-> OnEndpointException([class |-> result.exc]), store |-> FALSE]
    ELSE IF NoContent(result.value)
    THEN [response |->
              OnEndpointException([class |-> "HTTPException",
                                   response |-> HTTPException(404, "No content extracted")]),
          store |-> FALSE]
    ELSE [response |-> Ok(response_data(t, url, domain_name, result.value.v)),
          store |-> TRUE]

\* POST /extract arrives (lines 365-383): answered from the cache, or
\* extract_article is called
Request(url, domain_name) ==
    /\ pc = "idle"
    /\ LET cached == get_cached_content(cache, now, url, domain_name)
       IN  /\ cache' = cached.cache
           /\ IF cached.value.some
              THEN /\ response' = Some(Ok(cached.value.v))
                   /\ pc' = "responded"
                   /\ UNCHANGED <<args, config>>
              ELSE /\ response' = None
                   /\ pc' = "resolve"
                   /\ args' = [op |-> "extract_article", url |-> url, config |-> None,
                               domain_name |-> domain_name]
                   /\ config' = None
    /\ request' = Some([url |-> url, domain_name |-> domain_name])
    /\ UNCHANGED <<registry, nreg, browser, context, html, first_story, outcome, hist, now, live, conc>>

\* extract_article is back (lines 384-441)
Respond ==
    /\ pc = "done"
    /\ request.some
    /\ LET r == extract_article_endpoint(now, request.v.url, request.v.domain_name, outcome)
       IN  /\ response' = Some(r.response)
           /\ cache' = IF r.store
                       THEN set_cached_content(cache, now, request.v.url,
                                               request.v.domain_name, r.response.body)
                       ELSE cache
    /\ pc' = "responded"
    /\ UNCHANGED <<registry, nreg, browser, args, locals, outcome, hist, now, request, live, conc>>

\* The response is with the client; the request is over
Reply ==
    /\ pc = "responded"
    /\ pc' = "idle"
    /\ args' = NoArgs
    /\ config' = None
    /\ context' = "none"
    /\ html' = None
    /\ first_story' = None
    /\ outcome' = Pending
    /\ hist' = NoHist
    /\ request' = None
    /\ response' = None
    /\ UNCHANGED <<registry, nreg, browser, cache, now, live, conc>>

\* POST /cache/clear (lines 330-334)
ClearCache ==
    /\ pc = "idle"
    /\ cache' = <<>>
    /\ UNCHANGED <<registry, nreg, browser, pc, args, locals, outcome, hist, now, request,
                   response, live, conc>>

\* Time passes.  The clock is read when a request arrives and when
\* extract_article is back, so its advance is taken just before these.
Tick ==
    /\ pc \in {"idle", "done"}
    /\ now < MaxTicks * TickSeconds
    /\ now' = now + TickSeconds
    /\ UNCHANGED <<registry, nreg, browser, pc, args, locals, outcome, hist, cache, request,
                   response, live, conc>>

\* The requests made
ApiRequests ==
    {[url |-> Url(sandesh \o DotCom), domain_name |-> Some(sandesh)],
     [url |-> Url(sandesh \o DotCom), domain_name |-> None],
     [url |-> Url(example \o DotCom), domain_name |-> None]}

NextApi ==
    \/ \E r \in ApiRequests : Request(r.url, r.domain_name)
    \/ Respond
    \/ Reply
    \/ ClearCache
    \/ Tick
    \/ Resolve
    \/ GetBrowser
    \/ NewContext
    \/ NewPage
    \/ Route
    \/ Goto
    \/ WaitForSelector
    \/ Click
    \/ \E d \in Docs : Content(d)
    \/ CloseAfterFailure
    \/ Close
    \/ Parse
    \/ RunEngine
    \/ Fallback

SpecApi == Init /\ [][NextApi]_vars

(***************************************************************************)
(* POST /generate (api.py) and ArticleGenerator.generate_article           *)
(* (article_generator.py): extract_article is run for every source URL,    *)
(* the texts are collected and the generator is called with them.          *)
(***************************************************************************)
\* len(content) > 12000
ContentLimit == 12000

t_Source == <<"S","o","u","r","c","e",":"," ">>

t_truncated == <<".",".",".","(","t","r","u","n","c","a","t","e","d",")">>

t_keypoints_only == <<"N","o"," ","s","o","u","r","c","e"," ","c","o","n","t","e","n","t"," ","a","v","a","i","l","a","b","l","e","."," ","G","e","n","e","r","a","t","e"," ","b","a","s","e","d"," ","o","n"," ","K","e","y","p","o","i","n","t","s"," ","o","n","l","y",".">>

txt_article == <<"<","p",">","h","e","l","l","o","<","/","p",">">>

\* A text one character longer than the limit
txt_long == [i \in 1..(ContentLimit + 1) |-> "a"]

BlankLine == <<"\n","\n">>

\* Mutant: asyncio.gather without return_exceptions: the first exception is
\* raised in the endpoint
gather_Propagates(results) ==
    LET raised == SelectSeq(results, LAMBDA r : r.kind = "raise")
    IN  IF raised = <<>> THEN Return(results) ELSE raised[1]

\* await asyncio.gather(*scrape_tasks, return_exceptions=True): the results
\* and the exceptions, in the order of the tasks
gather(results) == Return(results)

\* content[:12000] + "...(truncated)" for a content over the limit
Truncate(content) ==
    IF Len(content) > ContentLimit
    THEN SubSeq(content, 1, ContentLimit) \o t_truncated
    ELSE content

\* api.py 503-515, one turn of the loop over zip(source_urls, results): what
\* is appended to scraped_texts
Collect(url, result) ==
    IF result.kind = "raise" THEN <<>>
    ELSE IF ~Truthy(result.value) THEN <<>>
    ELSE <<t_Source \o url \o <<"\n">> \o Truncate(result.value.v)>>

RECURSIVE CollectAll(_, _)
\* api.py 503-515: scraped_texts after the loop
CollectAll(urls, results) ==
    IF urls = <<>> \/ results = <<>> THEN <<>>
    ELSE Collect(Head(urls), Head(results)) \o CollectAll(Tail(urls), Tail(results))

\* api.py 519-524
combined_text(scraped_texts) ==
    IF scraped_texts = <<>> THEN t_keypoints_only ELSE Join(scraped_texts, BlankLine)

\* article_generator.py 247-253, one turn of the loop: an exception is logged,
\* a falsy content is dropped
GeneratorCollect(result) ==
    IF result.kind = "raise" THEN <<>>
    ELSE IF ~Truthy(result.value) THEN <<>>
    ELSE <<result.value.v>>

RECURSIVE GeneratorCollectAll(_)
\* article_generator.py 246-253: scraped_texts after the loop
GeneratorCollectAll(results) ==
    IF results = <<>> THEN <<>>
    ELSE GeneratorCollect(Head(results)) \o GeneratorCollectAll(Tail(results))

\* article_generator.py 255
GeneratorContext(scraped_texts) ==
    IF scraped_texts = <<>> THEN <<>> ELSE Join(scraped_texts, BlankLine)

\* The source URLs of a request
BatchUrls == {Url(sandesh \o DotCom), Url(example \o DotCom)}

RECURSIVE Lists(_, _)
\* The lists of at most n elements of S
Lists(S, n) ==
    IF n = 0 THEN {<<>>}
    ELSE Lists(S, n - 1) \cup {Append(l, x) : l \in {m \in Lists(S, n - 1) : Len(m) = n - 1}, x \in S}

\* What extract_article gives for one URL
BatchOutcomes ==
    {Raise("SelectorSyntaxError"), Return(None), Return(Some(<<>>)),
     Return(Some(txt_article)), Return(Some(txt_long))}

\* A request arrives: through the endpoint ("api") or through
\* ArticleGenerator.generate_article ("generator")
Generate(via, urls) ==
    /\ batch.stage = "idle"
    /\ batch' = [stage |-> "scraping", via |-> via, urls |-> urls, results |-> <<>>,
                 texts |-> <<>>, context |-> None, response |-> None]
    /\ UNCHANGED <<registry, nreg, browser, pc, args, locals, outcome, hist, api, live,
                   workers, writer, reader>>

\* extract_article is back for the next URL
Scraped(result) ==
    /\ batch.stage = "scraping"
    /\ Len(batch.results) < Len(batch.urls)
    /\ batch' = [batch EXCEPT !.results = Append(@, result)]
    /\ UNCHANGED <<registry, nreg, browser, pc, args, locals, outcome, hist, api, live,
                   workers, writer, reader>>

\* api.py 500-524, article_generator.py 246-255: every task is back; the
\* texts are collected and combined.  An exception raised here reaches the
\* endpoint's except Exception (api.py 557-561), which answers 500.
Gather ==
    /\ batch.stage = "scraping"
    /\ Len(batch.results) = Len(batch.urls)
    /\ IF batch.via = "api"
       THEN LET results == gather(batch.results)
            IN  IF results.kind = "raise"
                THEN batch' = [batch EXCEPT !.stage = "responded", !.response = Some(500)]
                ELSE LET scraped_texts == CollectAll(batch.urls, results.value)
                     IN  batch' = [batch EXCEPT !.stage = "generating",
                                                !.texts = scraped_texts,
                                                !.context = Some(combined_text(scraped_texts))]
       ELSE LET scraped_texts == GeneratorCollectAll(batch.results)
            IN  batch' = [batch EXCEPT !.stage = "generating",
                                       !.texts = scraped_texts,
                                       !.context = Some(GeneratorContext(scraped_texts))]
    /\ UNCHANGED <<registry, nreg, browser, pc, args, locals, outcome, hist, api, live,
                   workers, writer, reader>>

\* generate_article_from_text is back with success or with an error
\* (api.py 529-555)
Generated ==
    /\ batch.stage = "generating"
    /\ \E success \in BOOLEAN :
          batch' = [batch EXCEPT !.stage = "responded",
                                 !.response = Some(IF success THEN 200 ELSE 500)]
    /\ UNCHANGED <<registry, nreg, browser, pc, args, locals, outcome, hist, api, live,
                   workers, writer, reader>>

\* The response is with the client
BatchReply ==
    /\ batch.stage = "responded"
    /\ batch' = NoBatch
    /\ UNCHANGED <<registry, nreg, browser, pc, args, locals, outcome, hist, api, live,
                   workers, writer, reader>>

NextGenerate ==
    \/ \E via \in {"api", "generator"}, urls \in Lists(BatchUrls, MaxUrls) : Generate(via, urls)
    \/ \E result \in BatchOutcomes : Scraped(result)
    \/ Gather
    \/ Generated
    \/ BatchReply

SpecGenerate == Init /\ [][NextGenerate]_vars

(***************************************************************************)
(* get_browser on the thread pool: the endpoints run extract_article on    *)
(* the threads of thread_pool, and each call goes through get_browser      *)
(* (main.py 17-38), which reads and writes the module-level _browser       *)
(* without a lock.                                                         *)
(***************************************************************************)
\* A thread of the pool picks up an extract_article call, which reaches
\* line 127
WorkerCall(w) ==
    /\ workers[w] = "idle"
    /\ workers' = [workers EXCEPT ![w] = "check"]
    /\ UNCHANGED <<registry, nreg, browser, pc, args, locals, outcome, hist, api, live,
                   batch, writer, reader>>

\* Line 21: if _browser is None or not _browser.is_connected()
WorkerCheck(w) ==
    /\ workers[w] = "check"
    /\ workers' = [workers EXCEPT ![w] = IF NeedsLaunch(browser) THEN "start" ELSE "return"]
    /\ UNCHANGED <<registry, nreg, browser, pc, args, locals, outcome, hist, api, live,
                   batch, writer, reader>>

\* Line 23: _playwright = sync_playwright().start()
WorkerStart(w) ==
    /\ workers[w] = "start"
    /\ workers' = [workers EXCEPT ![w] = "launch"]
    /\ UNCHANGED <<registry, nreg, browser, pc, args, locals, outcome, hist, api, live,
                   batch, writer, reader>>

\* Lines 24-35: _browser = _playwright.chromium.launch(...).  A launch that
\* raises leaves _browser as it was and ends get_browser.
WorkerLaunch(w) ==
    /\ workers[w] = "launch"
    /\ \/ /\ live < MaxLive
          /\ live' = live + 1
          /\ browser' = "connected"
          /\ workers' = [workers EXCEPT ![w] = "return"]
       \/ /\ workers' = [workers EXCEPT ![w] = "idle"]
          /\ UNCHANGED <<browser, live>>
    /\ UNCHANGED <<registry, nreg, pc, args, locals, outcome, hist, api, batch, writer,
                   reader>>

\* Line 38: return _browser
WorkerReturn(w) ==
    /\ workers[w] = "return"
    /\ workers' = [workers EXCEPT ![w] = "idle"]
    /\ UNCHANGED <<registry, nreg, browser, pc, args, locals, outcome, hist, api, live,
                   batch, writer, reader>>

NextBrowser ==
    \/ \E w \in Workers : WorkerCall(w)
    \/ \E w \in Workers : WorkerCheck(w)
    \/ \E w \in Workers : WorkerStart(w)
    \/ \E w \in Workers : WorkerLaunch(w)
    \/ \E w \in Workers : WorkerReturn(w)
    \/ BrowserDies

SpecBrowser == Init /\ [][NextBrowser]_vars

(***************************************************************************)
(* extract_article_async(url, config, domain_name) (main_async.py), step   *)
(* by step.  It has no try statement but the one around the click: an      *)
(* exception of any other step leaves the function, through the exit of    *)
(* "async with async_playwright()", which ends the browser it launched.    *)
(***************************************************************************)
CallAsync(url, cfg, name) ==
    /\ pc = "idle"
    /\ args' = [op |-> "extract_article_async", url |-> url, config |-> cfg,
                domain_name |-> name]
    /\ config' = cfg
    /\ pc' = "a_resolve"
    /\ UNCHANGED <<registry, nreg, browser, context, html, first_story, outcome, hist, api,
                   live, conc>>

\* main_async.py 45-53: the configuration, or ValueError
resolve_config_async(reg, url, cfg, domain_name) ==
    IF cfg.some THEN Return(cfg)
    ELSE LET found == IF Truthy(domain_name)
                      THEN get_config_by_name(reg, domain_name.v)
                      ELSE get_config(reg, url)
         IN  IF found.some THEN Return(found) ELSE Raise("ValueError")

\* The browsing context once the async with block has been left
AsyncExit(ctx) == IF ctx = "open" THEN "closed" ELSE ctx

\* The step named step raises exc, which leaves extract_article_async
AsyncThrow(step, exc) ==
    /\ hist' = [hist EXCEPT !.raised = @ \cup {step}]
    /\ pc' = "done"
    /\ outcome' = Raise(exc)
    /\ context' = AsyncExit(context)

\* main_async.py 45-53
AsyncResolve ==
    /\ pc = "a_resolve"
    /\ LET r == resolve_config_async(registry, args.url, args.config, args.domain_name)
       IN  IF r.kind = "raise"
           THEN /\ hist' = [hist EXCEPT !.raised = @ \cup {"resolve"}]
                /\ pc' = "done"
                /\ outcome' = r
                /\ UNCHANGED config
           ELSE /\ config' = r.value
                /\ pc' = "a_launch"
                /\ UNCHANGED <<outcome, hist>>
    /\ UNCHANGED <<registry, nreg, browser, args, context, html, first_story, api, live, conc>>

\* main_async.py 58-62: a browser of its own for the call
AsyncLaunch ==
    /\ pc = "a_launch"
    /\ \/ /\ pc' = "a_new_context"
          /\ UNCHANGED <<context, outcome, hist>>
       \/ AsyncThrow("launch", "PlaywrightError")
    /\ UNCHANGED <<registry, nreg, browser, args, config, html, first_story, api, live, conc>>

\* main_async.py 63
AsyncNewContext ==
    /\ pc = "a_new_context"
    /\ \/ /\ pc' = "a_route"
          /\ context' = "open"
          /\ UNCHANGED <<outcome, hist>>
       \/ AsyncThrow("new_context", "PlaywrightError")
    /\ UNCHANGED <<registry, nreg, browser, args, config, html, first_story, api, live, conc>>

\* main_async.py 65-70
AsyncRoute ==
    /\ pc = "a_route"
    /\ \/ /\ pc' = "a_new_page"
          /\ UNCHANGED <<context, outcome, hist>>
       \/ AsyncThrow("route", "PlaywrightError")
    /\ UNCHANGED <<registry, nreg, browser, args, config, html, first_story, api, live, conc>>

\* main_async.py 71
AsyncNewPage ==
    /\ pc = "a_new_page"
    /\ \/ /\ pc' = "a_goto"
          /\ UNCHANGED <<context, outcome, hist>>
       \/ AsyncThrow("new_page", "PlaywrightError")
    /\ UNCHANGED <<registry, nreg, browser, args, config, html, first_story, api, live, conc>>

\* main_async.py 72
AsyncGoto ==
    /\ pc = "a_goto"
    /\ \/ /\ pc' = "a_wait_for_selector"
          /\ UNCHANGED <<context, outcome, hist>>
       \/ AsyncThrow("goto", "PlaywrightError")
    /\ UNCHANGED <<registry, nreg, browser, args, config, html, first_story, api, live, conc>>

\* main_async.py 75: the wait is not inside a try statement
AsyncWaitForSelector ==
    /\ pc = "a_wait_for_selector"
    /\ \/ /\ pc' = IF Cfg(config.v).load_more_selector.some THEN "a_click" ELSE "a_content"
          /\ UNCHANGED <<outcome, hist, context>>
       \/ AsyncThrow("wait_for_selector", "TimeoutError")
    /\ UNCHANGED <<registry, nreg, browser, args, config, html, first_story, api, live, conc>>

\* main_async.py 78-82: a failure is swallowed
AsyncClick ==
    /\ pc = "a_click"
    /\ \/ hist' = [hist EXCEPT !.clicks = @ + 1]
       \/ hist' = [hist EXCEPT !.clicks = @ + 1, !.raised = @ \cup {"click"}]
    /\ pc' = "a_content"
    /\ UNCHANGED <<registry, nreg, browser, args, locals, outcome, api, live, conc>>

\* main_async.py 84
AsyncContent(d) ==
    /\ pc = "a_content"
    /\ \/ /\ html' = Some(d)
          /\ pc' = "a_browser_close"
          /\ UNCHANGED <<outcome, hist, context>>
       \/ /\ AsyncThrow("content", "PlaywrightError")
          /\ UNCHANGED html
    /\ UNCHANGED <<registry, nreg, browser, args, config, first_story, api, live, conc>>

\* main_async.py 85: await browser.close()
AsyncBrowserClose ==
    /\ pc = "a_browser_close"
    /\ \/ /\ context' = "closed"
          /\ pc' = "a_parse"
          /\ UNCHANGED <<outcome, hist>>
       \/ AsyncThrow("close", "PlaywrightError")
    /\ UNCHANGED <<registry, nreg, browser, args, config, html, first_story, api, live, conc>>

\* main_async.py 90-94: if not first_story: return None
AsyncParse ==
    /\ pc = "a_parse"
    /\ LET sel == Cfg(config.v).article_container_selector
           found == select_one(Doc(html.v), {}, sel)
       IN  IF ~sel.valid
           THEN /\ hist' = [hist EXCEPT !.raised = @ \cup {"parse"}]
                /\ pc' = "done"
                /\ outcome' = Raise("SelectorSyntaxError")
                /\ UNCHANGED first_story
           ELSE /\ first_story' = found
                /\ IF found.some
                   THEN pc' = "a_engine" /\ UNCHANGED outcome
                   ELSE pc' = "done" /\ outcome' = Return(None)
                /\ UNCHANGED hist
    /\ UNCHANGED <<registry, nreg, browser, args, config, context, html, api, live, conc>>

\* main_async.py 96-159: the same Engine as in main.py
AsyncEngine ==
    /\ pc = "a_engine"
    /\ outcome' = Engine(Doc(html.v), first_story.v, Cfg(config.v))
    /\ hist' = [hist EXCEPT !.engine = TRUE,
                            !.raised = IF outcome'.kind = "raise" THEN @ \cup {"engine"} ELSE @]
    /\ pc' = "done"
    /\ UNCHANGED <<registry, nreg, browser, args, locals, api, live, conc>>

\* What extract_article_async is called with
AsyncConfigs == {None, Some("sandesh_v2"), Some("custom_config")}

AsyncNames == {None, Some(sandesh), Some(nonexistent)}

NextAsync ==
    \/ \E url \in CallUrls, cfg \in AsyncConfigs, name \in AsyncNames : CallAsync(url, cfg, name)
    \/ AsyncResolve
    \/ AsyncLaunch
    \/ AsyncNewContext
    \/ AsyncRoute
    \/ AsyncNewPage
    \/ AsyncGoto
    \/ AsyncWaitForSelector
    \/ AsyncClick
    \/ \E d \in Docs : AsyncContent(d)
    \/ AsyncBrowserClose
    \/ AsyncParse
    \/ AsyncEngine
    \/ Finish

SpecAsync == Init /\ [][NextAsync]_vars

(***************************************************************************)
(* The registry under concurrency: register (scraper_config.py 61-76) is   *)
(* a sequence of dictionary assignments, and get_config (78-94) two        *)
(* dictionary reads; a thread calling get_config can run between any two   *)
(* of them.  Each assignment and each read is atomic.                      *)
(***************************************************************************)
\* Mutant: the hostnames are bound before the configuration is stored
register_writes_MapFirst(ref, domains) ==
    LET name == Cfg(ref).domain_name
        hosts == IF domains.some /\ domains.v # <<>> THEN domains.v ELSE <<name>>
    IN  [i \in 1..Len(hosts) |-> [dict |-> "domain_map", key |-> Lower(hosts[i]), value |-> name]]
        \o <<[dict |-> "configs", key |-> name, value |-> ref]>>

\* The assignments of register(config, domains), in the order of the code:
\* line 70, then lines 72-76
register_writes(ref, domains) ==
    LET name == Cfg(ref).domain_name
        hosts == IF domains.some /\ domains.v # <<>> THEN domains.v ELSE <<name>>
    IN  <<[dict |-> "configs", key |-> name, value |-> ref]>>
        \o [i \in 1..Len(hosts) |-> [dict |-> "domain_map", key |-> Lower(hosts[i]), value |-> name]]

\* register_domain(config, domains) is called on the writer's thread
RegisterBegin(in) ==
    /\ ~writer.some
    /\ nreg < MaxRegister
    /\ nreg' = nreg + 1
    /\ writer' = Some([config |-> in.config, domains |-> in.domains, before |-> registry,
                       todo |-> register_writes(in.config, in.domains)])
    /\ UNCHANGED <<registry, browser, pc, args, locals, outcome, hist, api, live, batch,
                   workers, reader>>

\* The next assignment of the register call
RegisterWrite ==
    /\ writer.some
    /\ writer.v.todo # <<>>
    /\ LET w == Head(writer.v.todo)
       IN  registry' = IF w.dict = "configs"
                       THEN [registry EXCEPT !.configs = Put(@, w.key, w.value)]
                       ELSE [registry EXCEPT !.domain_map = Put(@, w.key, w.value)]
    /\ writer' = Some([writer.v EXCEPT !.todo = Tail(@)])
    /\ UNCHANGED <<nreg, browser, pc, args, locals, outcome, hist, api, live, batch, workers,
                   reader>>

\* register returns
RegisterEnd ==
    /\ writer.some
    /\ writer.v.todo = <<>>
    /\ writer' = None
    /\ UNCHANGED <<registry, nreg, browser, pc, args, locals, outcome, hist, api, live,
                   batch, workers, reader>>

\* get_config(url) is called on the reader's thread
ReadBegin(url) ==
    /\ ~reader.some
    /\ reader' = Some([url |-> url, stage |-> "domain_map", config_name |-> None,
                       result |-> None])
    /\ UNCHANGED <<registry, nreg, browser, pc, args, locals, outcome, hist, api, live,
                   batch, workers, writer>>

\* Lines 88-91: config_name = self._domain_map.get(domain.lower()); a falsy
\* name returns None (line 94)
ReadDomainMap ==
    /\ reader.some
    /\ reader.v.stage = "domain_map"
    /\ LET config_name == Get(registry.domain_map, Lower(_extract_domain(reader.v.url)))
       IN  reader' = Some([reader.v EXCEPT
                              !.config_name = config_name,
                              !.stage = IF Truthy(config_name) THEN "configs" ELSE "done"])
    /\ UNCHANGED <<registry, nreg, browser, pc, args, locals, outcome, hist, api, live,
                   batch, workers, writer>>

\* Line 92: return self._configs.get(config_name)
ReadConfigs ==
    /\ reader.some
    /\ reader.v.stage = "configs"
    /\ reader' = Some([reader.v EXCEPT
                           !.result = Get(registry.configs, reader.v.config_name.v),
                           !.stage = "done"])
    /\ UNCHANGED <<registry, nreg, browser, pc, args, locals, outcome, hist, api, live,
                   batch, workers, writer>>

\* get_config has returned
ReadEnd ==
    /\ reader.some
    /\ reader.v.stage = "done"
    /\ reader' = None
    /\ UNCHANGED <<registry, nreg, browser, pc, args, locals, outcome, hist, api, live,
                   batch, workers, writer>>

NextRegistry ==
    \/ \E in \in RegisterInputs : RegisterBegin(in)
    \/ RegisterWrite
    \/ RegisterEnd
    \/ \E url \in Urls : ReadBegin(url)
    \/ ReadDomainMap
    \/ ReadConfigs
    \/ ReadEnd

SpecRegistry == Init /\ [][NextRegistry]_vars

(***************************************************************************)
(* Claims                                                                  *)
(***************************************************************************)
IsExtract == args.op = "extract_article"

\* The call ended in the Generic Fallback and returned what it returned
ReturnedFallback ==
    /\ hist.fallback.some
    /\ outcome.kind = "return"
    /\ outcome = hist.fallback.v.result

\* C1: extract_article called with no config and a domain_name that is not
\* registered raises ValueError and does not go to the Generic Fallback.
\* (The statement of the claim; the code violates it.)
C1_UnknownDomainRaises ==
    (/\ pc = "done"
     /\ IsExtract
     /\ ~args.config.some
     /\ Truthy(args.domain_name)
     /\ args.domain_name.v \notin DOMAIN registry.configs)
    => (outcome = Raise("ValueError") /\ ~hist.fallback.some)

\* C2: extract_article called with only a URL goes on with the configuration
\* the registry binds to the URL's host (Renderer, then Engine), and starts with
\* the Generic Fallback only when the host is unresolved.
\* (The statement of the claim; the code violates it.)
C2_ResolvesByUrlHost ==
    (/\ IsExtract
     /\ pc \notin {"idle", "resolve"}
     /\ ~args.config.some
     /\ ~args.domain_name.some)
    => /\ config = get_config(registry, args.url)
       /\ (pc = "fallback" /\ hist.raised = {} /\ context = "none")
              => ~get_config(registry, args.url).some

FetchSucceeded(env) == env.fetch.kind = "return" /\ Truthy(env.fetch.value)

ExtractSucceeded(env) == env.extract.kind = "return" /\ Truthy(env.extract.value)

two_paragraphs == <<"<","p",">","h","e","l","l","o","<","/","p",">","\n","\n","<","p",">","w","o","r","l","d","<","/","p",">">>

C4_ExplicitConfigWins ==
    (/\ IsExtract
     /\ pc \notin {"idle", "resolve"}
     /\ args.config.some)
    => /\ config = args.config
       /\ outcome # Raise("ValueError")
       /\ (pc = "fallback") => (hist.raised # {} \/ html.some)
       /\ (pc = "done" /\ hist.engine)
              => outcome = Engine(Doc(html.v), first_story.v, Cfg(args.config.v))

C4_Witness ==
    /\ pc = "done"
    /\ IsExtract
    /\ args.config = Some("sandesh_v2")
    /\ args.domain_name = Some(nonexistent)
    /\ nonexistent \notin DOMAIN registry.configs
    /\ get_config(registry, args.url) = Some("SANDESH_CONFIG")
    /\ hist.engine
    /\ html = Some("doc_split")
    /\ outcome.kind = "return"

\* The Renderer steps whose exception is not swallowed inside the render
HardRenderSteps ==
    {"get_browser", "new_context", "new_page", "route", "goto", "content", "close"}

\* C5: with a configuration in use, an exception raised by the Renderer
\* (browser acquisition, context or page creation, routing, navigation, content
\* serialization, closing the context) makes extract_article return the result
\* of the Generic Fallback; no Renderer exception reaches the caller.
C5_RendererErrorsFallBack ==
    (pc = "done" /\ IsExtract)
    => /\ (hist.raised \cap HardRenderSteps # {}) => (ReturnedFallback /\ ~hist.engine)
       /\ outcome # Raise("PlaywrightError")

C5_Witness ==
    /\ pc = "done"
    /\ IsExtract
    /\ config.some
    /\ hist.raised = {"goto", "close"}
    /\ context = "open"
    /\ outcome = Return(Some(two_paragraphs))

\* C6: an error inside the Engine (block-set selection, elementsToRemove
\* selectors, noise removal, harvest) becomes a degrade to the Generic Fallback
\* and never leaves extract_article.
\* (The statement of the claim; the code violates it.)
C6_EngineErrorsFallBack ==
    (pc = "done" /\ IsExtract /\ "engine" \in hist.raised)
    => ReturnedFallback

\* The rendered document has no container, or the container has no text
NothingLocated ==
    /\ html.some
    /\ config.some
    /\ LET doc == Doc(html.v)
           found == select_one(doc, {}, Cfg(config.v).article_container_selector)
       IN  ~found.some \/ get_text(doc, {}, found.v) = <<>>

\* C7: when the rendered document has no element matching
\* articleContainerSelector, or the first match has no non-whitespace text,
\* extract_article returns the result of the Generic Fallback, not an empty
\* configured result.
C7_NoContainerFallsBack ==
    (pc = "done" /\ IsExtract /\ NothingLocated)
    => (ReturnedFallback /\ ~hist.engine)

C7_Witness ==
    /\ pc = "done"
    /\ IsExtract
    /\ html = Some("doc_blank_container")
    /\ first_story = Some(1)
    /\ hist.raised = {}
    /\ context = "closed"
    /\ outcome = Return(Some(two_paragraphs))

\* C8: for every registered name n, get_config_by_name(n) returns a
\* configuration whose domain_name is n, also after a name was registered again.
C8_NamesResolve ==
    /\ \A n \in DOMAIN registry.configs :
           /\ get_config_by_name(registry, n).some
           /\ Cfg(get_config_by_name(registry, n).v).domain_name = n
    /\ (pc = "done" /\ args.op = "get_config_by_name" /\ outcome.value.some)
           => Cfg(outcome.value.v).domain_name = args.domain_name.v

\* A register call leaves its configuration as the one its name resolves to
C8_RegisterReplaces ==
    \A in \in RegisterInputs :
        (nreg' = nreg + 1 /\ registry' = register(registry, in.config, in.domains))
        => get_config_by_name(registry', Cfg(in.config).domain_name) = Some(in.config)

\* C8: a registered name resolves to the configuration stored under that very
\* name, and a registration replaces what the name resolved to before
C8_NameResolvesToOwnConfig == []C8_NamesResolve /\ [][C8_RegisterReplaces]_vars

C8_Witness ==
    /\ pc = "done"
    /\ args.op = "get_config_by_name"
    /\ args.domain_name = Some(sandesh)
    /\ outcome = Return(Some("sandesh_v2"))
    /\ NewsDesk \in DOMAIN registry.configs

\* C9: get_config matches the host of the URL against the registered hostnames
\* whatever its letter case; when the bare and the www. hostname are both bound
\* to a name, URLs with either form resolve to the same configuration; a www.
\* host does not resolve when only the bare form is bound.
C9_HostMatching ==
    (pc = "done" /\ args.op = "get_config_for_url")
    => \A h2 \in Hosts :
        LET l1 == Lower(_extract_domain(args.url))
            l2 == Lower(h2)
            dm == registry.domain_map
            c1 == outcome.value
            c2 == get_config(registry, Url(h2))
        IN  /\ (l1 = l2) => (c1 = c2)
            /\ (l1 \in DOMAIN dm /\ dm[l1] \in DOMAIN registry.configs)
                   => c1 = Some(registry.configs[dm[l1]])
            /\ (l1 \notin DOMAIN dm) => ~c1.some
            /\ (l2 = Www \o l1 /\ l1 \in DOMAIN dm /\ l2 \in DOMAIN dm /\ dm[l1] = dm[l2])
                   => (c1 = c2 /\ c1.some)
            /\ (l1 = Www \o l2 /\ l2 \in DOMAIN dm /\ l1 \notin DOMAIN dm)
                   => (c2.some /\ ~c1.some)

C9_Witness ==
    /\ pc = "done"
    /\ args.op = "get_config_for_url"
    /\ args.url = Url(WwwUpper \o SandeshMixed \o DotComUpper)
    /\ outcome = Return(Some("SANDESH_CONFIG"))
    /\ (bbc \o DotCom) \in DOMAIN registry.domain_map
    /\ (Www \o bbc \o DotCom) \notin DOMAIN registry.domain_map
    /\ ~get_config(registry, Url(Www \o bbc \o DotCom)).some

\* C10: get_config ignores the port of the URL: host:8080 resolves to the
\* configuration the host resolves to.
\* (The statement of the claim; the code violates it.)
C10_PortIgnored ==
    \A h \in Hosts :
        (pc = "done" /\ args.op = "get_config_for_url" /\ args.url = Url(h \o Port))
        => outcome = Return(get_config(registry, Url(h)))

\* The hostnames a register call binds: the given ones, lower-cased, or the
\* name when none are given (hostnames are keyed in lower case)
C11_Bound(in) ==
    IF in.domains.some /\ in.domains.v # <<>>
    THEN {Lower(h) : h \in Range(in.domains.v)}
    ELSE {Lower(Cfg(in.config).domain_name)}

C11_RegisterStep ==
    \A in \in RegisterInputs :
        (nreg' = nreg + 1 /\ registry' = register(registry, in.config, in.domains))
        => LET name == Cfg(in.config).domain_name
               old == registry.domain_map
               new == registry'.domain_map
           IN  /\ DOMAIN new = DOMAIN old \cup C11_Bound(in)
               /\ \A h \in C11_Bound(in) : new[h] = name
               /\ \A h \in DOMAIN old \ C11_Bound(in) : new[h] = old[h]
               /\ DOMAIN registry'.configs = DOMAIN registry.configs \cup {name}
               /\ \A n \in DOMAIN registry.configs \ {name} :
                      registry'.configs[n] = registry.configs[n]
               /\ \A h \in DOMAIN old :
                      (old[h] = name /\ name # <<>>)
                      => get_config(registry', Url(h)) = Some(in.config)

\* C11: register binds each given hostname, lower-cased, to the name of the
\* configuration (the name itself when no hostname is given) and changes nothing
\* else: every other name and every hostname bound before stay, so a hostname
\* bound by an earlier registration of the name resolves after the name is
\* registered again with another hostname list.
C11_RegisterAdditive == [][C11_RegisterStep]_vars

\* sandesh was registered again with the one hostname Sandesh.COM, and
\* www.sandesh.com, bound at import, resolves to the new configuration;
\* NewsDesk was registered without hostnames.
C11_Witness ==
    /\ registry.configs[sandesh] = "sandesh_v2"
    /\ get_config(registry, Url(Www \o sandesh \o DotCom)) = Some("sandesh_v2")
    /\ Lower(NewsDesk) \in DOMAIN registry.domain_map
    /\ registry.domain_map[Lower(NewsDesk)] = NewsDesk

\* C12: no configuration is ever stored under the empty name.
\* (The statement of the claim; register stores whatever name it is given.)
C12_NamesNonEmpty == \A n \in DOMAIN registry.configs : n # <<>>

(***************************************************************************)
(* Claims about the Engine.  They are read off the states in which the     *)
(* Engine has returned: the document, the configuration and the output of  *)
(* the call.                                                               *)
(***************************************************************************)
EngineReturned == pc = "done" /\ IsExtract /\ hist.engine /\ outcome.kind = "return"

TheDoc == Doc(html.v)

TheCfg == Cfg(config.v)

Output == outcome.value.v

\* The blocks of the output in order (no text of the documents holds a newline)
OutputBlocks == SelectSeq(Split(Output), LAMBDA l : l # <<>>)

\* <tag>text</tag>: its tag and its text
BlockTag(b) == Slice(b, 1, FindAny(b, {">"}, 0))

BlockText(b) == Slice(b, FindAny(b, {">"}, 0) + 1, Len(b) - (FindAny(b, {">"}, 0) + 2))

OutputTexts == {BlockText(OutputBlocks[k]) : k \in 1..Len(OutputBlocks)}

\* The nodes inside a subtree some elements_to_remove selector matches
InRemovedSubtree(doc, cfg) ==
    {j \in 1..Len(doc) :
        \E i \in 1..Len(cfg.elements_to_remove), e \in 1..Len(doc) :
            /\ Matches(doc[e], cfg.elements_to_remove[i])
            /\ j = e \/ IsAncestor(doc, e, j)}

\* The text contains a keyword, letter case aside
HasKeyword(text, keywords) ==
    \E i \in 1..Len(keywords) : Contains(Lower(text), Lower(keywords[i]))

\* What is out of the document when the harvest starts
DeadAfterRemovals(doc, cfg) == RemoveElements(doc, {}, cfg.elements_to_remove)

DeadAtHarvest(doc, cfg) ==
    RemoveNoise(doc, DeadAfterRemovals(doc, cfg), cfg.noise_keywords)

RECURSIVE CandidatesOf(_, _, _)
\* The candidate elements in traversal order: block after block, each block in
\* document order
CandidatesOf(doc, cfg, blocks) ==
    IF blocks = <<>> THEN <<>>
    ELSE find_all_tags(doc, DeadAtHarvest(doc, cfg), Head(blocks), cfg.allowed_tags)
         \o CandidatesOf(doc, cfg, Tail(blocks))

Candidates ==
    CandidatesOf(TheDoc, TheCfg,
                 story_blocks(TheDoc, first_story.v, article_id(TheDoc, first_story.v, TheCfg)))

CandidateText(j) == get_text(TheDoc, DeadAtHarvest(TheDoc, TheCfg), j)

\* The filters other than the duplicate check
PassesFilters(j) ==
    /\ Len(CandidateText(j)) >= TheCfg.min_text_length
    /\ ~is_noise(CandidateText(j), TheCfg.noise_keywords)
    /\ ~(TheDoc[j].tag \in {t_h3, t_h4} /\ HasRelatedParent(TheDoc, j))

\* C13: a text that stands only inside a subtree matched by an
\* elements_to_remove selector is in no block of the output.
C13_RemovedContentAbsent ==
    EngineReturned =>
        LET gone == InRemovedSubtree(TheDoc, TheCfg)
        IN  \A j \in gone :
                (/\ TheDoc[j].kind = "text"
                 /\ Strip(TheDoc[j].text) # <<>>
                 /\ \A k \in (1..Len(TheDoc)) \ gone :
                        TheDoc[k].kind = "text"
                        => ~Contains(Strip(TheDoc[k].text), Strip(TheDoc[j].text)))
                => \A t \in OutputTexts : ~Contains(t, Strip(TheDoc[j].text))

\* doc_split: the paragraph "inside removed" stands in div.inner_ar, inside the
\* first block, with a tag the configuration allows and more than 5 characters
C13_Witness ==
    /\ EngineReturned
    /\ html = Some("doc_split")
    /\ config = Some("story_config")
    /\ 5 \in InRemovedSubtree(TheDoc, TheCfg)
    /\ TheDoc[5].tag \in TheCfg.allowed_tags
    /\ Strip(txt_hello_world) \in OutputTexts
    /\ txt_inside_removed \notin OutputTexts

\* The elements the noise pass took out themselves (not as part of a subtree)
NoiseTargets(doc, cfg) ==
    {j \in DeadAtHarvest(doc, cfg) \ DeadAfterRemovals(doc, cfg) :
        doc[j].parent \notin DeadAtHarvest(doc, cfg)}

\* The text nodes the noise pattern matches, still in the document after the
\* elements_to_remove pass
NoiseStrings(doc, cfg) ==
    {j \in (1..Len(doc)) \ DeadAfterRemovals(doc, cfg) :
        doc[j].kind = "text" /\ HasKeyword(doc[j].text, cfg.noise_keywords)}

\* C14: the noise pass removes an element only as the parent of a text node
\* holding a keyword, and only a div/span/aside/footer/nav with fewer than 200
\* characters of text; such a parent is removed; a parent with another tag or
\* with 200 characters or more is not (unless it stands inside a removed one).
C14_NoiseRemovalConservative ==
    EngineReturned =>
        LET doc == TheDoc
            cfg == TheCfg
            dead1 == DeadAfterRemovals(doc, cfg)
            dead2 == DeadAtHarvest(doc, cfg)
        IN  /\ \A p \in NoiseTargets(doc, cfg) :
                   /\ \E j \in NoiseStrings(doc, cfg) : doc[j].parent = p
                   /\ doc[p].tag \in {t_div, t_span, t_aside, t_footer, t_nav}
                   /\ Len(get_text(doc, dead2 \ decompose(doc, {}, p), p)) < 200
            /\ \A j \in NoiseStrings(doc, cfg) :
                   LET p == doc[j].parent
                   IN  p # 0 =>
                       /\ (/\ doc[p].tag \in {t_div, t_span, t_aside, t_footer, t_nav}
                           /\ Len(get_text(doc, dead1, p)) < 200)
                          => p \in dead2
                       /\ (\/ doc[p].tag \notin {t_div, t_span, t_aside, t_footer, t_nav}
                           \/ Len(get_text(doc, dead2 \ decompose(doc, {}, p), p)) >= 200)
                          => p \notin NoiseTargets(doc, cfg)

\* doc_noise: the container with 199 characters is removed with its paragraph;
\* the one with 200 and the paragraph holding the keyword stay in the document
C14_Witness ==
    /\ EngineReturned
    /\ html = Some("doc_noise")
    /\ config = Some("story_config")
    /\ Len(get_text(TheDoc, {}, 2)) = 199
    /\ Len(get_text(TheDoc, {}, 6)) = 200
    /\ NoiseStrings(TheDoc, TheCfg) = {3, 7, 11}
    /\ DeadAtHarvest(TheDoc, TheCfg) = {2, 3, 4, 5}
    /\ OutputTexts = {txt_b_195}

\* C15: no emitted text holds a noise keyword, whatever the letter case of the
\* keyword in the configuration.
\* (The statement of the claim; is_noise lower-cases the text only.)
C15_NoiseCaseInsensitive ==
    EngineReturned =>
        \A t \in OutputTexts : ~HasKeyword(t, TheCfg.noise_keywords)

\* The first candidate in traversal order that passes the filters and has the
\* text
FirstWith(text) ==
    LET hits == {k \in 1..Len(Candidates) :
                    PassesFilters(Candidates[k]) /\ CandidateText(Candidates[k]) = text}
    IN  Candidates[CHOOSE k \in hits : \A k2 \in hits : k <= k2]

\* C16: no two blocks of the output have the same text, and a text that several
\* candidates produce is emitted under the tag of the first of them.
C16_NoDuplicateText ==
    EngineReturned =>
        /\ \A a, b \in 1..Len(OutputBlocks) :
               BlockText(OutputBlocks[a]) = BlockText(OutputBlocks[b]) => a = b
        /\ \A a \in 1..Len(OutputBlocks) :
               BlockTag(OutputBlocks[a]) = TheDoc[FirstWith(BlockText(OutputBlocks[a]))].tag

\* doc_dup: "hello world" under h2 and then under p in one block; doc_split:
\* "hello world" under p in both blocks
C16_Witness ==
    /\ EngineReturned
    /\ html = Some("doc_dup")
    /\ config = Some("story_config")
    /\ CandidateText(2) = CandidateText(4)
    /\ {2, 4} \subseteq Range(Candidates)
    /\ PassesFilters(2) /\ PassesFilters(4)
    /\ OutputBlocks[1] = FormatBlock(t_h2, Strip(txt_hello_world))
    /\ \A a \in 2..Len(OutputBlocks) : BlockText(OutputBlocks[a]) # Strip(txt_hello_world)

\* C17: a candidate whose text has exactly min_text_length characters and
\* passes the other filters is in the output; a text with fewer characters is
\* in no block.
C17_MinLengthInclusive ==
    EngineReturned =>
        \A k \in 1..Len(Candidates) :
            LET j == Candidates[k]
                text == CandidateText(j)
            IN  /\ (/\ Len(text) = TheCfg.min_text_length
                    /\ ~is_noise(text, TheCfg.noise_keywords)
                    /\ ~(TheDoc[j].tag \in {t_h3, t_h4} /\ HasRelatedParent(TheDoc, j)))
                   => text \in OutputTexts
                /\ Len(text) < TheCfg.min_text_length => text \notin OutputTexts

\* doc_dup with min_text_length = 5: "abcde" is kept, "abcd" is not
C17_Witness ==
    /\ EngineReturned
    /\ html = Some("doc_dup")
    /\ config = Some("story_config")
    /\ TheCfg.min_text_length = 5
    /\ {6, 8} \subseteq Range(Candidates)
    /\ Len(CandidateText(6)) = 5
    /\ Len(CandidateText(8)) = 4
    /\ txt_abcde \in OutputTexts
    /\ txt_abcd \notin OutputTexts

\* The elements whose candidates belong to the output according to the claim:
\* the located element and, when it has an id class, every element with it
C18_Contributors ==
    LET id == article_id(TheDoc, first_story.v, TheCfg)
    IN  {first_story.v} \cup
        (IF id.some
         THEN {e \in 1..Len(TheDoc) : TheDoc[e].kind = "elem" /\ id.v \in Range(TheDoc[e].class)}
         ELSE {})

\* C18: the candidates of the located element and of every element carrying
\* its id class are harvested; without an id class only those of the located
\* element are.
\* (The statement of the claim; the code harvests the divs of class story that
\* carry the id class.)
C18_IdClassBlocks ==
    EngineReturned =>
        LET dead == DeadAtHarvest(TheDoc, TheCfg)
            under == {j \in (1..Len(TheDoc)) \ dead :
                         /\ TheDoc[j].kind = "elem"
                         /\ TheDoc[j].tag \in TheCfg.allowed_tags
                         /\ \E e \in C18_Contributors : IsAncestor(TheDoc, e, j)}
        IN  /\ \A j \in under : PassesFilters(j) => CandidateText(j) \in OutputTexts
            /\ \A t \in OutputTexts : \E j \in under : CandidateText(j) = t

RECURSIVE C19_Render(_)
\* <tag>text</tag> for each element, one blank line between two
C19_Render(elems) ==
    IF elems = <<>> THEN <<>>
    ELSE LET j == Head(elems)
             block == <<"<">> \o TheDoc[j].tag \o <<">">> \o CandidateText(j)
                      \o <<"<", "/">> \o TheDoc[j].tag \o <<">">>
         IN  IF Len(elems) = 1 THEN block
             ELSE block \o <<"\n", "\n">> \o C19_Render(Tail(elems))

\* The candidates that pass the filters and whose text no earlier passing
\* candidate has, in traversal order
C19_Survivors ==
    LET keep == {k \in 1..Len(Candidates) :
                    /\ PassesFilters(Candidates[k])
                    /\ \A k2 \in 1..(k - 1) :
                           PassesFilters(Candidates[k2])
                           => CandidateText(Candidates[k2]) # CandidateText(Candidates[k])}
        order == InOrder(keep)
    IN  [i \in 1..Len(order) |-> Candidates[order[i]]]

\* C19: the output is the surviving candidates in traversal order, each as
\* <tag>text</tag>, two blocks one blank line apart; it is empty when none
\* survived.
C19_OutputRendering ==
    EngineReturned =>
        /\ outcome.value.some
        /\ Output = C19_Render(C19_Survivors)
        /\ (C19_Survivors = <<>>) <=> (Output = <<>>)

\* doc_split: two blocks in the block set, three candidates pass, the third
\* repeats the first
C19_Witness ==
    /\ EngineReturned
    /\ html = Some("doc_split")
    /\ config = Some("story_config")
    /\ Candidates = <<2, 8, 10>>
    /\ C19_Survivors = <<2, 10>>
    /\ Output = <<"<","p",">">> \o Strip(txt_hello_world) \o <<"<","/","p",">">>
                \o <<"\n","\n">>
                \o <<"<","p",">">> \o txt_five_accused \o <<"<","/","p",">">>

\* C20: POST /extract answers 404, with success false in the body, whenever
\* extract_article returned None or a blank string.
\* (The statement of the claim; the HTTPException(404) is raised inside the try
\* block and its except Exception handler turns it into 500.)
C20_NoContentIs404 ==
    (pc = "responded" /\ outcome.kind = "return" /\ NoContent(outcome.value))
    => /\ response.v.status = 404
       /\ response.v.body.success = FALSE

\* C21: POST /extract for a URL whose host is bound to no configuration, with
\* no domain_name, answers 404 with success false in the detail.
\* (The statement of the claim; extract_article raises no ValueError and the
\* request is answered with the Generic Fallback's text, or with 500.)
C21_UnregisteredHostIs404 ==
    (/\ pc = "responded"
     /\ ~request.v.domain_name.some
     /\ ~get_config(registry, request.v.url).some)
    => /\ response.v.status = 404
       /\ response.v.body.success = FALSE

\* The cache key of the request being served, and of the one arriving
RequestKey == get_cache_key(request.v.url, request.v.domain_name)

ArrivingKey == get_cache_key(request'.v.url, request'.v.domain_name)

\* A POST /extract arrives in this step
Arrives == pc = "idle" /\ request'.some

\* A successful extraction has just been answered: the response is stored
\* under the request's key, to expire _cache_ttl seconds later
C22_Stored ==
    (/\ pc = "responded"
     /\ outcome.kind = "return"
     /\ response.v.status = 200)
    => /\ RequestKey \in DOMAIN cache
       /\ cache[RequestKey] = [data |-> response.v.body, expires_at |-> now + _cache_ttl]

\* An entry leaves the cache, or changes, only by /cache/clear, by a lookup
\* at or after its expiry, or by the answer to a later extraction for its key
C22_Kept ==
    \A k \in DOMAIN cache :
        (k \notin DOMAIN cache' \/ cache'[k] # cache[k])
        => \/ pc = "idle" /\ ~request'.some
           \/ Arrives /\ k = ArrivingKey /\ now >= cache[k].expires_at
           \/ pc = "done" /\ k = RequestKey /\ outcome.kind = "return"

\* A request whose entry has not expired is answered with the stored response
\* and extract_article is not called
C22_Served ==
    (/\ Arrives
     /\ ArrivingKey \in DOMAIN cache
     /\ now < cache[ArrivingKey].expires_at)
    => /\ pc' = "responded"
       /\ response' = Some(Ok(cache[ArrivingKey].data))
       /\ UNCHANGED <<cache, args, outcome, hist, browser, locals>>

\* C22: after a successful POST /extract for a (url, domain_name) pair, an
\* identical request made before the 300-second TTL elapses, with no
\* /cache/clear in between, is answered from the cache with the stored
\* response, and extract_article is not called again.
C22_RepeatServedFromCache == []C22_Stored /\ [][C22_Kept /\ C22_Served]_vars

\* A response extracted at time 0 answers a request made 150 seconds later
C22_Witness ==
    /\ pc = "responded"
    /\ outcome = Pending
    /\ response.v.status = 200
    /\ response.v.body.metadata.extracted_at = 0
    /\ now = TickSeconds
    /\ RequestKey \in DOMAIN cache

\* The positions of the source URLs whose extraction returned a content,
\* in request order
C23_Good ==
    SelectSeq([i \in 1..Len(batch.urls) |-> i],
              LAMBDA i : /\ batch.results[i].kind = "return"
                         /\ batch.results[i].value.some
                         /\ batch.results[i].value.v # <<>>)

\* The content of the k-th collected text: after the "Source: <url>" line for
\* the endpoint, the whole text for ArticleGenerator
C23_Body(k) ==
    LET t == batch.texts[k]
        header == Len(t_Source) + Len(batch.urls[C23_Good[k]]) + 1
    IN  IF batch.via = "api" THEN SubSeq(t, header + 1, Len(t)) ELSE t

\* The texts handed to the generator are those of the URLs that gave a
\* content, in request order, and the context is built from them
C23_Collected ==
    batch.stage = "generating"
    => /\ Len(batch.texts) = Len(C23_Good)
       /\ \A k \in 1..Len(C23_Good) :
              LET content == batch.results[C23_Good[k]].value.v
                  kept == IF Len(content) < ContentLimit THEN Len(content) ELSE ContentLimit
              IN  /\ SubSeq(C23_Body(k), 1, kept) = SubSeq(content, 1, kept)
                  /\ batch.via = "api"
                     => StartsWith(batch.texts[k], t_Source \o batch.urls[C23_Good[k]])
       /\ batch.context.some
       /\ C23_Good = <<>>
          => batch.context.v = (IF batch.via = "api" THEN t_keypoints_only ELSE <<>>)
       /\ C23_Good # <<>> => batch.context.v = Join(batch.texts, BlankLine)

\* Once every extraction is back the generator is called, whatever the
\* extractions gave
C23_Proceeds ==
    (batch.stage = "scraping" /\ batch'.stage # "scraping")
    => /\ Len(batch.results) = Len(batch.urls)
       /\ batch'.stage = "generating"

\* C23: the scrape step of a batch never aborts because one URL fails: a URL
\* whose extraction raises or returns no content is skipped, the contents of
\* the other URLs are collected in request order, and the generator is called
\* (with a keypoints-only context when no URL gave content).
C23_BatchNeverAborts == []C23_Collected /\ [][C23_Proceeds]_vars

\* The first URL raised and the second gave a text; the generator is called
\* with that text
C23_Witness ==
    /\ batch.stage = "generating"
    /\ batch.via = "api"
    /\ Len(batch.urls) = 2
    /\ batch.results[1].kind = "raise"
    /\ batch.results[2] = Return(Some(txt_article))
    /\ Len(batch.texts) = 1

\* C24: on every exit path of the render step after a browsing context has
\* been opened, the context is closed before extract_article returns or
\* raises.
\* (The statement of the claim; an exception raised by context.new_page() or
\* context.route() is caught by the outer handler, which goes to the Generic
\* Fallback without closing the context.)
C24_ContextAlwaysClosed == (pc = "done" /\ IsExtract) => context # "open"

\* C25: one browser process is shared by all extractions: under any
\* interleaving of extract_article calls on the pool's threads at most one
\* launched browser is alive, and a live browser is the one _browser refers
\* to.
\* (The statement of the claim; get_browser tests and assigns _browser
\* without a lock, so two threads that both find no live browser both launch
\* one and the first is left unreferenced.)
C25_SingleBrowser ==
    /\ live <= 1
    /\ live = 1 => browser = "connected"

\* The render of the call in progress is past the click
C27_PastClick == pc \in {"content", "close", "parse", "engine"} \/ html.some

\* One click attempt when load_more_selector is set, none when it is not
C27_ClickCount ==
    (IsExtract /\ config.some)
    => /\ hist.clicks <= 1
       /\ ~Cfg(config.v).load_more_selector.some => hist.clicks = 0
       /\ (Cfg(config.v).load_more_selector.some /\ C27_PastClick) => hist.clicks = 1
       /\ pc = "click" => hist.clicks = 0 /\ Cfg(config.v).load_more_selector.some

\* Whether the click succeeds or fails, the next step is page.content(): no
\* exception, no fallback
C27_ClickStep ==
    pc = "click"
    => /\ pc' = "content"
       /\ hist'.clicks = 1
       /\ ~hist'.fallback.some
       /\ UNCHANGED <<outcome, html, context>>

\* C27: the load-more click is best effort: with loadMoreSelector set the
\* Renderer makes exactly one click attempt, with it unset none; a failure of
\* the attempt is swallowed and the extraction goes on with the current HTML,
\* without raising or falling back.
C27_LoadMoreBestEffort == []C27_ClickCount /\ [][C27_ClickStep]_vars

\* The click failed and the Engine returned text from the page
C27_Witness ==
    /\ pc = "done"
    /\ IsExtract
    /\ "click" \in hist.raised
    /\ hist.raised = {"click"}
    /\ hist.clicks = 1
    /\ hist.engine
    /\ ~hist.fallback.some
    /\ outcome.kind = "return"

\* The call in progress is an extraction, by either implementation
IsRender == args.op \in {"extract_article", "extract_article_async"}

\* C26: a timeout, or any failure, of the wait for articleContainerSelector
\* does not abort the render: the Renderer goes on to the load-more click and
\* still serializes the page and hands its HTML on.
\* (The statement of the claim; it holds of extract_article, while in
\* extract_article_async the wait is outside any try statement and its
\* exception ends the call.)
C26_WaitFailureContinues ==
    (/\ pc = "done"
     /\ IsRender
     /\ "wait_for_selector" \in hist.raised
     /\ hist.raised \subseteq {"wait_for_selector", "click"})
    => /\ html.some
       /\ outcome.kind = "return"
       /\ Cfg(config.v).load_more_selector.some => hist.clicks = 1

\* Every hostname key is lower-case and bound to a name that has a
\* configuration
C28_Integrity ==
    \A h \in DOMAIN registry.domain_map :
        /\ h = Lower(h)
        /\ registry.domain_map[h] \in DOMAIN registry.configs

\* A get_config that found a name for the host finds its configuration
C28_ReaderNeverMisses ==
    reader.some
    => /\ reader.v.stage = "configs"
          => reader.v.config_name.v \in DOMAIN registry.configs
       /\ (reader.v.stage = "done" /\ Truthy(reader.v.config_name))
          => reader.v.result.some

\* The assignments of a register call add up to register
C28_WritesAreRegister ==
    (writer.some /\ writer.v.todo = <<>>)
    => registry = register(writer.v.before, writer.v.config, writer.v.domains)

\* C28: in every reachable state, the states between the assignments of a
\* register call included, every hostname key of the hostname map is
\* lower-case and bound to a name present in the name -> configuration map,
\* so a concurrent get_config never resolves a bound hostname to a missing
\* configuration.
C28_ReferentialIntegrity == C28_Integrity /\ C28_ReaderNeverMisses /\ C28_WritesAreRegister

\* A reader resolved a hostname of a registration that is still binding its
\* other hostnames
C28_Witness ==
    /\ writer.some
    /\ writer.v.config = "bbc_config"
    /\ writer.v.todo # <<>>
    /\ reader.some
    /\ reader.v.stage = "done"
    /\ reader.v.result = Some("bbc_config")

\* The container was located and has text that is not blank
C29_Located ==
    /\ first_story.some
    /\ get_text(TheDoc, {}, first_story.v) # <<>>

\* With the container located, a harvest in which no candidate survives gives
\* the empty string; the Engine's result is never None and the Generic
\* Fallback is not called
C29_EmptyHarvest ==
    (EngineReturned /\ C29_Located)
    => /\ outcome.value.some
       /\ ~hist.fallback.some
       /\ C19_Survivors = <<>> => outcome = Return(Some(<<>>))

\* With the container located the call goes from the parse to the Engine and
\* from the Engine to its caller
C29_ConfiguredPath ==
    /\ (pc = "parse" /\ first_story'.some /\ get_text(TheDoc, {}, first_story'.v) # <<>>)
       => pc' = "engine"
    /\ pc = "engine" => pc' = "done"

C30_OnlySuccesses ==
    \A k \in DOMAIN cache :
        /\ cache[k].data.success
        /\ Strip(cache[k].data.content) # <<>>

\* The extraction of the request just answered gave nothing, gave blank text
\* or raised
C30_Failed ==
    /\ pc = "responded"
    /\ outcome # Pending
    /\ outcome.kind = "return" => NoContent(outcome.value)

\* No entry exists for a request whose extraction failed
C30_NoEntryForFailure == C30_Failed => RequestKey \notin DOMAIN cache

\* A lookup answers only with an entry that has not expired, and deletes the
\* entry it finds expired
C30_LookupStep ==
    Arrives
    => /\ pc' = "responded"
          => /\ ArrivingKey \in DOMAIN cache
             /\ now < cache[ArrivingKey].expires_at
             /\ response' = Some(Ok(cache[ArrivingKey].data))
       /\ (ArrivingKey \in DOMAIN cache /\ now >= cache[ArrivingKey].expires_at)
          => /\ ArrivingKey \notin DOMAIN cache'
             /\ pc' = "resolve"

\* C30: the /extract cache only ever holds successful responses with content
\* that is not blank: no entry exists for a request whose extraction returned
\* nothing or blank text or raised, and a lookup never returns an entry whose
\* expiry time has passed (it deletes such an entry).
C30_CacheHoldsOnlySuccesses ==
    [](C30_OnlySuccesses /\ C30_NoEntryForFailure) /\ [][C30_LookupStep]_vars

\* A request answered after the TTL has passed whose extraction failed: the
\* cache holds entries, none of them for this request
C30_Witness ==
    /\ C30_Failed
    /\ now >= _cache_ttl
    /\ cache # <<>>
    /\ RequestKey \notin DOMAIN cache
    /\ response.v.status # 200

====
